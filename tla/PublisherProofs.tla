-------------------------- MODULE PublisherProofs --------------------------
(***************************************************************************)
(* Proofs about Publisher, for any signals, names, settings and bounds.    *)
(*                                                                         *)
(* The statuses follow the flags: most steps end with updateStatuses, and  *)
(* a turn of the reader may end with updatePublishingStatus alone, which   *)
(* touches the component's status only when the publishing status changes. *)
(* Where an exception has left validation, "stale" says so, and nothing is *)
(* claimed of statuses, topics and reader until they are set again.        *)
(*                                                                         *)
(* The other properties come from one inductive invariant. It says what is *)
(* true while callbacks are still to come: every signal is on a port of    *)
(* the list, the indexes ascend, a preview is late only where a callback   *)
(* will come, and a new reader finds its descriptor packets first. The     *)
(* lists are recursive functions over the ports; what they hold is shown   *)
(* by induction, as the absence of a least counterexample.                 *)
(***************************************************************************)
EXTENDS Publisher, TLAPS, FiniteSetTheorems, WellFoundedInduction

-----------------------------------------------------------------------------
(* The statuses. *)

\* What the statuses depend on.
LEMMA StatusDepends ==
  ASSUME NEW s, NEW t, NEW set,
         s.error = t.error, s.skipped = t.skipped, s.contexts = t.contexts
  PROVE  StatusOf(s, set) = StatusOf(t, set)
  BY DEF StatusOf, Component

\* updatePublishingStatus makes statuses right that were right before some
\* message was refused: the component looks at the refusal too, but only a
\* change of the publishing status can change what it sees.
LEMMA PublishingSuffices ==
  ASSUME NEW s, NEW t, NEW set,
         s.error = t.error, s.contexts = t.contexts,
         s.skipped \in BOOLEAN, t.skipped \in BOOLEAN
  PROVE  PublishingStatus(StatusOf(s, set), t, set) = StatusOf(t, set)
<1>1. CASE s.skipped = t.skipped
  BY <1>1, StatusDepends DEF PublishingStatus
<1>2. CASE s.skipped # t.skipped
  BY <1>2 DEF PublishingStatus, StatusOf, Component
<1> QED
  BY <1>1, <1>2

\* A step that ends with updateStatuses.
LEMMA Updated ==
  ASSUME NEW st, Become(st), status' = StatusOf(st, config')
  PROVE  StatusesFollowFlags'
<1>1. /\ Now'.error = st.error /\ Now'.skipped = st.skipped
      /\ Now'.contexts = st.contexts
  BY DEF Become, Now
<1>2. StatusOf(Now', config') = StatusOf(st, config')
  BY <1>1, StatusDepends
<1> QED
  BY <1>2 DEF StatusesFollowFlags

\* A step that leaves the statuses and all they depend on alone.
LEMMA Untouched ==
  ASSUME StatusesFollowFlags,
         "validation" \notin stale' => "validation" \notin stale,
         UNCHANGED <<signalContexts, hasSignalError, hasSkippedMsg, failed,
                     config, status>>
  PROVE  StatusesFollowFlags'
<1>1. /\ Now'.error = Now.error /\ Now'.skipped = Now.skipped
      /\ Now'.contexts = Now.contexts
  BY DEF Now
<1>2. StatusOf(Now', config') = StatusOf(Now, config)
  BY <1>1, StatusDepends
<1> QED
  BY <1>2 DEF StatusesFollowFlags

-----------------------------------------------------------------------------
\* The records a turn of the reader hands on have the fields of Now.
Block(st) ==
  /\ st = [contexts |-> st.contexts, error |-> st.error,
           skipped |-> st.skipped, handler |-> st.handler,
           queue |-> st.queue, failed |-> st.failed]
  /\ st.skipped \in BOOLEAN

\* The records keep their fields when ports and handler are replaced.
LEMMA WithPorts ==
  ASSUME NEW st, Block(st), NEW c, NEW h,
         NEW new, new = [st EXCEPT !.contexts = c, !.handler = h]
  PROVE  Block(new)
<1>1. PICK c0, e0, s0, h0, q0, f0 :
        st = [contexts |-> c0, error |-> e0, skipped |-> s0,
              handler |-> h0, queue |-> q0, failed |-> f0]
  BY DEF Block
<1>2. s0 \in BOOLEAN
  BY <1>1 DEF Block
<1>3. new = [contexts |-> c, error |-> e0, skipped |-> s0,
             handler |-> h, queue |-> q0, failed |-> f0]
  BY <1>1
<1> QED
  BY <1>2, <1>3 DEF Block

\* They keep them when the flags are set.
LEMMA WithFlags ==
  ASSUME NEW st, Block(st), NEW e, NEW s \in BOOLEAN,
         NEW new, new = [st EXCEPT !.error = e, !.skipped = s]
  PROVE  Block(new)
<1>1. PICK c0, e0, s0, h0, q0, f0 :
        st = [contexts |-> c0, error |-> e0, skipped |-> s0,
              handler |-> h0, queue |-> q0, failed |-> f0]
  BY DEF Block
<1>2. new = [contexts |-> c0, error |-> e, skipped |-> s,
             handler |-> h0, queue |-> q0, failed |-> f0]
  BY <1>1
<1> QED
  BY <1>2 DEF Block

\* They keep them when one of the flags is set.
LEMMA WithSkipped ==
  ASSUME NEW st, Block(st), NEW s \in BOOLEAN,
         NEW new, new = [st EXCEPT !.skipped = s]
  PROVE  Block(new)
<1>1. PICK c0, e0, s0, h0, q0, f0 :
        st = [contexts |-> c0, error |-> e0, skipped |-> s0,
              handler |-> h0, queue |-> q0, failed |-> f0]
  BY DEF Block
<1>2. new = [contexts |-> c0, error |-> e0, skipped |-> s,
             handler |-> h0, queue |-> q0, failed |-> f0]
  BY <1>1
<1> QED
  BY <1>2 DEF Block

\* They keep them in signalListChanged.
LEMMA ListChangedBlock ==
  ASSUME NEW st, Block(st)
  PROVE  Block(SignalListChanged(st))
<1>1. PICK c0, e0, s0, h0, q0, f0 :
        st = [contexts |-> c0, error |-> e0, skipped |-> s0,
              handler |-> h0, queue |-> q0, failed |-> f0]
  BY DEF Block
<1>2. s0 \in BOOLEAN
  BY <1>1 DEF Block
<1>3. \E h, q : SignalListChanged(st) = [st EXCEPT !.handler = h, !.queue = q]
  <2> DEFINE on == ConnectedOf(st.contexts)
             ports == [i \in DOMAIN on |-> on[i].index]
             h == [ports |-> ports, buffers |-> Len(st.contexts) - 1,
                   first |-> TRUE]
             q == [p \in Indexes |-> IF p \in Range(ports)
                                     THEN <<"event">> \o st.queue[p]
                                     ELSE st.queue[p]]
  <2>1. SignalListChanged(st) = [st EXCEPT !.handler = h, !.queue = q]
    BY Zenon DEF SignalListChanged
  <2> HIDE DEF h, q
  <2> QED
    BY <2>1
<1>4. PICK h, q : SignalListChanged(st) = [st EXCEPT !.handler = h, !.queue = q]
  BY <1>3
<1>5. SignalListChanged(st) =
        [contexts |-> c0, error |-> e0, skipped |-> s0,
         handler |-> h, queue |-> q, failed |-> f0]
  BY <1>1, <1>4
<1> QED
  BY <1>2, <1>5 DEF Block

\* They keep them in validateInputPorts.
LEMMA ValidatedBlock ==
  ASSUME NEW st, Block(st), NEW c
  PROVE  Block(ValidateInputPorts(st, c))
<1> DEFINE ok == Accepts(st.contexts, c)
           one == [st EXCEPT !.error = FALSE, !.skipped = FALSE]
           checked == [st EXCEPT !.error = ~ok, !.skipped = FALSE]
           left == [st EXCEPT !.skipped = FALSE]
<1>1. Block(one) /\ Block(checked)
  BY WithFlags
<1>2. Block(left)
  BY WithSkipped
<1>3. Block(SignalListChanged(checked))
  <2> HIDE DEF checked
  <2> QED
    BY <1>1, ListChangedBlock
<1> HIDE DEF ok, one, checked, left
<1>4. ValidateInputPorts(st, c) \in
        {one, left, checked, SignalListChanged(checked)}
  BY DEF ValidateInputPorts, ok, one, checked, left
<1> QED
  BY <1>1, <1>2, <1>3, <1>4

\* They keep them in processSignalContexts, which sets none of the flags.
LEMMA ProcessedBlock ==
  ASSUME NEW st, Block(st)
  PROVE  /\ Block(Process(st).st)
         /\ Process(st).st.error = st.error
         /\ Process(st).st.skipped = st.skipped
         /\ Process(st).st.contexts = st.contexts
<1> DEFINE Kept(s) == /\ Block(s) /\ s.error = st.error
                      /\ s.skipped = st.skipped /\ s.contexts = st.contexts
<1>1. Kept(ProcessEach(st).st)
  BY DEF Block, ProcessEach
<1>2. Kept(ProcessGroup(st).st)
  BY DEF Block, ProcessGroup
<1> QED
  BY <1>1, <1>2 DEF Process

Inv == StatusesFollowFlags /\ hasSkippedMsg \in BOOLEAN

\* A turn of the reader keeps the statuses current, on each of its paths.
LEMMA ReaderLoopFollows ==
  ASSUME Inv, NEW skip \in BOOLEAN, ReaderLoop(skip)
  PROVE  Inv'
<1> DEFINE flagged == \/ hasSignalError /\ signalDescriptorChanged
                      \/ signalAttributeChanged
           throws == Throws(signalContexts, config)
           st1 == IF flagged THEN ValidateInputPorts(Now, config) ELSE Now
           old1 == IF flagged THEN StatusOf(st1, config) ELSE status
           got == IF st1.error \/ hasSettingError(config) \/ (flagged /\ throws)
                  THEN NothingRead(st1) ELSE Process(st1)
           st2 == IF got.needRevalidation
                  THEN ValidateInputPorts(got.st, config) ELSE got.st
           old2 == IF got.needRevalidation THEN StatusOf(st2, config)
                                           ELSE old1
           validates == flagged \/ got.needRevalidation
           st3 == [st2 EXCEPT !.skipped = @ \/ skip,
                              !.failed = @ \/ (validates /\ throws)]
<1>0. CASE "validation" \in stale'
  <2>1. hasSkippedMsg' \in BOOLEAN
    <3>1. hasSkippedMsg' = st3.skipped
      BY DEF ReaderLoop, Become
    <3>2. Block(Now)
      BY DEF Inv, Block, Now
    <3>3. Block(st1)
      BY <3>2, ValidatedBlock
    <3> HIDE DEF st1, throws, flagged
    <3>4. Block(got.st)
      BY <3>3, ProcessedBlock DEF NothingRead
    <3> HIDE DEF got
    <3>5. Block(st2)
      BY <3>4, ValidatedBlock
    <3> HIDE DEF st2, validates
    <3>6. st3.skipped = (st2.skipped \/ skip)
      BY <3>5 DEF Block
    <3> QED
      BY <3>1, <3>5, <3>6 DEF Block
  <2> QED
    BY <1>0, <2>1 DEF Inv, StatusesFollowFlags
<1>00. SUFFICES ASSUME "validation" \notin stale' PROVE Inv'
  BY <1>0
<1>01. "validation" \notin stale \/ validates
  BY <1>00 DEF ReaderLoop
<1>1. Block(Now)
  BY DEF Inv, Block, Now
<1>2. /\ Block(st1)
      /\ "validation" \notin stale \/ flagged => old1 = StatusOf(st1, config)
  BY <1>1, ValidatedBlock DEF Inv, StatusesFollowFlags, ReaderLoop
<1> HIDE DEF throws
<1>3. /\ Block(got.st)
      /\ StatusOf(got.st, config) = StatusOf(st1, config)
  <2>1. CASE got = NothingRead(st1)
    BY <2>1, <1>2 DEF NothingRead
  <2>2. CASE got = Process(st1)
    <3> HIDE DEF st1
    <3>1. /\ Block(got.st)
          /\ got.st.error = st1.error /\ got.st.skipped = st1.skipped
          /\ got.st.contexts = st1.contexts
      BY <2>2, <1>2, ProcessedBlock
    <3> QED
      BY <3>1, StatusDepends
  <2> QED
    BY <2>1, <2>2
<1> HIDE DEF st1, old1, got, flagged
<1>4. Block(st2) /\ old2 = StatusOf(st2, config)
  BY <1>01, <1>2, <1>3, ValidatedBlock
<1> HIDE DEF st2, old2, validates
<1>5. /\ Block(st3) /\ st3.error = st2.error
      /\ st3.contexts = st2.contexts
  <2>1. PICK c0, e0, s0, h0, q0, f0 :
          /\ st2 = [contexts |-> c0, error |-> e0, skipped |-> s0,
                    handler |-> h0, queue |-> q0, failed |-> f0]
          /\ s0 \in BOOLEAN
    BY <1>4 DEF Block
  <2>2. \E s, f : /\ s \in BOOLEAN
                  /\ st3 = [st2 EXCEPT !.skipped = s, !.failed = f]
    <3> DEFINE s == st2.skipped \/ skip
               f == st2.failed \/ (validates /\ throws)
    <3>1. st3 = [st2 EXCEPT !.skipped = s, !.failed = f] /\ s \in BOOLEAN
      BY Zenon
    <3> HIDE DEF s, f
    <3> QED
      BY <3>1
  <2>3. PICK s, f : /\ s \in BOOLEAN
                    /\ st3 = [st2 EXCEPT !.skipped = s, !.failed = f]
    BY <2>2
  <2> HIDE DEF st3
  <2>4. st3 = [contexts |-> c0, error |-> e0, skipped |-> s,
               handler |-> h0, queue |-> q0, failed |-> f]
    BY <2>1, <2>3
  <2> QED
    BY <2>1, <2>3, <2>4 DEF Block
<1>6. PublishingStatus(old2, st3, config) = StatusOf(st3, config)
  BY <1>4, <1>5, PublishingSuffices DEF Block
<1>7. Become(st3) /\ status' = PublishingStatus(old2, st3, config)
      /\ config' = config
  BY DEF ReaderLoop, flagged, throws, st1, old1, got, st2, old2, validates
<1> HIDE DEF st3
<1>8. StatusesFollowFlags'
  BY <1>6, <1>7, Updated
<1> QED
  BY <1>5, <1>7, <1>8 DEF Inv, Become, Block

\* Every step keeps the statuses current.
LEMMA StepFollows ==
  ASSUME Inv, [Next]_vars
  PROVE  Inv'
<1> USE DEF Inv
<1> DEFINE Same ==
             /\ "validation" \notin stale' => "validation" \notin stale
             /\ UNCHANGED <<signalContexts, hasSignalError, hasSkippedMsg,
                            failed, config, status>>
<1>0. Same => Inv'
  BY Untouched
<1>9. Block(Now)
  BY DEF Block, Now
<1>1. CASE Environment
  <2>1. Same
    BY <1>1 DEF Environment, Connect, Disconnect, ChangeDescriptor,
                ChangeDomain, Rename, SendPacket, coreVars
  <2> QED
    BY <2>1, <1>0
<1>2. ASSUME NEW s \in Signals, NEW what, CoreEventCallback(s, what)
      PROVE  Inv'
  BY <1>2, <1>0 DEF CoreEventCallback, coreVars
<1>3. ASSUME NEW callback, PortsChanged(callback)
      PROVE  Inv'
  <2> DEFINE contexts == ClearPorts(signalContexts)
             before == [Now EXCEPT
                          !.contexts = WithPreviews(contexts, config),
                          !.handler = Forget(handler)]
             st == ValidateInputPorts(before, config)
  <2>1. Block(before)
    BY <1>9, WithPorts
  <2>2. Block(st)
    BY <2>1, ValidatedBlock
  <2>3. /\ Become(st) /\ config' = config
        /\ "validation" \in stale' \/ status' = StatusOf(st, config)
    BY <1>3 DEF PortsChanged, Conclude
  <2> HIDE DEF st
  <2>4. StatusesFollowFlags'
    BY <2>3, Updated DEF StatusesFollowFlags
  <2> QED
    BY <2>2, <2>3, <2>4 DEF Become, Block
<1>4. ASSUME NEW set \in Settings, PropertyChanged(set)
      PROVE  Inv'
  <2> DEFINE before == [Now EXCEPT
                          !.contexts = WithPreviews(signalContexts, set),
                          !.handler = NoReader]
             st == ValidateInputPorts(before, set)
  <2>1. Block(before)
    BY <1>9, WithPorts
  <2>2. Block(st)
    BY <2>1, ValidatedBlock
  <2>3. /\ Become(st) /\ config' = set
        /\ "validation" \in stale' \/ status' = StatusOf(st, set)
    BY <1>4 DEF PropertyChanged, Conclude
  <2> HIDE DEF st
  <2>4. StatusesFollowFlags'
    BY <2>3, Updated DEF StatusesFollowFlags
  <2> QED
    BY <2>2, <2>3, <2>4 DEF Become, Block
<1>5. ASSUME NEW skip \in BOOLEAN, ReaderLoop(skip)
      PROVE  Inv'
  BY <1>5, ReaderLoopFollows
<1>6. CASE RemovedJoin \/ RemovedClear \/ RemovedRelease
  BY <1>6, <1>0 DEF RemovedJoin, RemovedClear, RemovedRelease, coreVars
<1>7. CASE UNCHANGED vars
  BY <1>7, <1>0 DEF vars, coreVars
<1> QED
  BY <1>1, <1>2, <1>3, <1>4, <1>5, <1>6, <1>7
  DEF Next, Callback, OnConnected, OnDisconnected, Gone

\* Whatever happens to ports, signals, properties and messages, the four
\* statuses say what the flags of the block say, except between an exception out
\* of validateInputPorts in a callback or a property change and the next
\* validation: updateStatuses and updatePublishingStatus are called wherever else
\* they have to be.
THEOREM StatusesAreCurrent == Spec => []StatusesFollowFlags
<1>1. Init => Inv
  BY DEF Init, Inv, StatusesFollowFlags
<1>2. Inv /\ [Next]_vars => Inv'
  BY StepFollows
<1>3. Inv => StatusesFollowFlags
  BY DEF Inv
<1> QED
  BY <1>1, <1>2, <1>3, PTL DEF Spec

-----------------------------------------------------------------------------
(* Induction, and what it says of ConnectedOf. *)

\* A set of natural numbers that is not empty has a least element.
LEMMA LeastElement ==
  ASSUME NEW T, T \subseteq Nat, T # {}
  PROVE  \E n \in T : \A m \in T : n <= m
<1> DEFINE R == OpToRel(<, Nat)
<1>1. \A x, y \in Nat : <<x, y>> \in R <=> x < y
  BY DEF OpToRel
<1>2. IsWellFoundedOn(R, Nat)
  BY NatLessThanWellFounded
<1> HIDE DEF R
<1>3. PICK n \in T : \A m \in T : ~ (<<m, n>> \in R)
  BY <1>2, WFMin
<1>4. n \in Nat /\ \A m \in T : m \in Nat /\ ~ (m < n)
  BY <1>1, <1>3
<1> QED
  BY <1>4

\* Induction over the natural numbers, with a set in the place of a predicate.
LEMMA Induction ==
  ASSUME NEW S, 0 \in S, \A n \in Nat : n \in S => n + 1 \in S
  PROVE  Nat \subseteq S
<1> DEFINE T == Nat \ S
<1>1. SUFFICES ASSUME T # {} PROVE FALSE
  OBVIOUS
<1>2. PICK n \in T : \A m \in T : n <= m
  BY <1>1, LeastElement
<1>3. n - 1 \in Nat /\ n - 1 \in S
  BY <1>2
<1> QED
  BY <1>3

\* f is what repeating step, for n times, makes of base.
Repeats(f, n, S, base, step) ==
  /\ f \in [0..n -> S] /\ f[0] = base
  /\ \A i \in 1..n : f[i] = step[i][f[i - 1]]
Repeatable(n, S, base, step) ==
  n \in Nat /\ base \in S /\ step \in [1..n -> [S -> S]]

\* What can be repeated has a function of all the steps.
LEMMA Recursion ==
  ASSUME NEW n, NEW S, NEW base, NEW step, Repeatable(n, S, base, step)
  PROVE  \E f : Repeats(f, n, S, base, step)
<1> USE DEF Repeatable
<1> DEFINE Upto(m, f) == f[0] = base /\ \A i \in 1..m : f[i] = step[i][f[i - 1]]
           T == {m \in Nat : m <= n => \E f \in [0..m -> S] : Upto(m, f)}
<1>1. 0 \in T
  <2> DEFINE f == [i \in 0..0 |-> base]
  <2>1. f \in [0..0 -> S] /\ Upto(0, f)
    OBVIOUS
  <2> QED
    BY <2>1
<1>2. ASSUME NEW m \in Nat, m \in T
      PROVE  m + 1 \in T
  <2>1. SUFFICES ASSUME m + 1 <= n
                 PROVE  \E f \in [0..m + 1 -> S] : Upto(m + 1, f)
    OBVIOUS
  <2>2. PICK g \in [0..m -> S] : Upto(m, g)
    BY <1>2, <2>1
  <2> DEFINE f == [i \in 0..m + 1 |-> IF i <= m THEN g[i] ELSE step[m + 1][g[m]]]
  <2>3. step[m + 1][g[m]] \in S
    BY <2>1
  <2>4. f \in [0..m + 1 -> S]
    BY <2>3
  <2>5. f[0] = base
    BY <2>2
  <2>6. ASSUME NEW i \in 1..m + 1
        PROVE  f[i] = step[i][f[i - 1]]
    <3>1. CASE i <= m
      <4>1. i \in 1..m /\ f[i] = g[i] /\ f[i - 1] = g[i - 1]
        BY <3>1
      <4> QED
        BY <4>1, <2>2
    <3>2. CASE i = m + 1
      <4>1. f[i] = step[m + 1][g[m]] /\ f[m] = g[m] /\ i - 1 = m
        BY <3>2
      <4> HIDE DEF f
      <4> QED
        BY <4>1, <3>2
    <3> QED
      BY <3>1, <3>2
  <2> HIDE DEF f
  <2> QED
    BY <2>4, <2>5, <2>6
<1> HIDE DEF T
<1>3. n \in T
  BY <1>1, <1>2, Induction
<1> QED
  BY <1>3 DEF T, Repeats

\* ConnectedOf and SignalsOn with what is plugged in as a parameter: the primed
\* variables can then stand for it.
KeptBy(contexts, plug) ==
  LET upTo[i \in 0..Len(contexts)] ==
        IF i = 0 THEN <<>>
        ELSE IF plug[contexts[i].index] # NoSignal
             THEN Append(upTo[i - 1], contexts[i])
        ELSE upTo[i - 1]
  IN  upTo[Len(contexts)]

SignalsBy(contexts, plug) ==
  LET on == KeptBy(contexts, plug)
  IN  [i \in DOMAIN on |-> plug[on[i].index]]

\* ConnectedOf and SignalsOn are these, before a step and after it.
LEMMA KeptNow ==
  ASSUME NEW c
  PROVE ConnectedOf(c) = KeptBy(c, plugged)
  BY DEF ConnectedOf, KeptBy, Connected

\* ConnectedOf in the next state.
LEMMA KeptThen ==
  ConnectedOf(signalContexts)' = KeptBy(signalContexts', plugged')
  BY DEF ConnectedOf, KeptBy, Connected

\* SignalsOn in this state.
LEMMA SignalsNow ==
  ASSUME NEW c
  PROVE SignalsOn(c) = SignalsBy(c, plugged)
  BY KeptNow DEF SignalsOn, SignalsBy

\* SignalsOn in the next state.
LEMMA SignalsThen ==
  SignalsOn(signalContexts)' = SignalsBy(signalContexts', plugged')
  BY KeptThen DEF SignalsOn, SignalsBy

\* f collects them port by port.
Collects(f, E, c, plug) ==
  /\ f \in [0..Len(c) -> Seq(E)] /\ f[0] = <<>>
  /\ \A i \in 1..Len(c) :
       f[i] = IF plug[c[i].index] # NoSignal
              THEN Append(f[i - 1], c[i]) ELSE f[i - 1]

\* The recursive function that ConnectedOf is defined by exists, so that it can be
\* unfolded.
LEMMA KeptUnfolds ==
  ASSUME NEW E, NEW c, c \in Seq(E), NEW plug
  PROVE  \E f : Collects(f, E, c, plug) /\ KeptBy(c, plug) = f[Len(c)]
<1> DEFINE n == Len(c)
           next(kept, i) == IF plug[c[i].index] # NoSignal
                            THEN Append(kept, c[i]) ELSE kept
           step == [i \in 1..n |-> [kept \in Seq(E) |-> next(kept, i)]]
           body(f) == [i \in 0..n |->
                 IF i = 0 THEN <<>>
                 ELSE IF plug[c[i].index] # NoSignal
                      THEN Append(f[i - 1], c[i])
                 ELSE f[i - 1]]
           upTo == CHOOSE f : f = body(f)
<1>1. n \in Nat /\ <<>> \in Seq(E)
  OBVIOUS
<1>2. \A kept \in Seq(E), i \in 1..n : next(kept, i) \in Seq(E)
  <2>1. \A i \in 1..n : c[i] \in E
    OBVIOUS
  <2> HIDE DEF n
  <2> QED
    BY <2>1
<1>3. KeptBy(c, plug) = upTo[n]
  BY DEF KeptBy
<1> HIDE DEF n
<1>4. \A f : body(f) = [i \in 0..n |-> IF i = 0 THEN <<>> ELSE next(f[i - 1], i)]
  OBVIOUS
<1> HIDE DEF next, body
<1>5. PICK g : Repeats(g, n, Seq(E), <<>>, step)
  BY <1>1, <1>2, Recursion DEF Repeatable
<1>6. \A i \in 1..n : g[i] = next(g[i - 1], i)
  <2>1. ASSUME NEW i \in 1..n PROVE g[i] = next(g[i - 1], i)
    <3>1. g[i - 1] \in Seq(E)
      BY <1>1, <1>5 DEF Repeats
    <3> QED
      BY <3>1, <1>5 DEF Repeats
  <2> QED
    BY <2>1
<1>7. g = body(g)
  <2>1. \A i \in 0..n : g[i] = IF i = 0 THEN <<>> ELSE next(g[i - 1], i)
    BY <1>1, <1>5, <1>6 DEF Repeats
  <2>2. g = [i \in 0..n |-> g[i]]
    BY <1>5 DEF Repeats
  <2> QED
    BY <2>1, <2>2, <1>4
<1>8. upTo = body(upTo)
  BY <1>7
<1> HIDE DEF upTo
<1>9. upTo[0] = <<>> /\ \A i \in 1..n : upTo[i] = next(upTo[i - 1], i)
  BY <1>1, <1>4, <1>8
<1>10. \A i \in 0..n : upTo[i] \in Seq(E)
  <2> DEFINE T == {i \in Nat : i <= n => upTo[i] \in Seq(E)}
  <2>1. 0 \in T
    BY <1>1, <1>9
  <2>2. ASSUME NEW i \in Nat, i \in T
        PROVE  i + 1 \in T
    <3>1. SUFFICES ASSUME i + 1 <= n PROVE upTo[i + 1] \in Seq(E)
      OBVIOUS
    <3>2. upTo[i] \in Seq(E) /\ i + 1 \in 1..n /\ (i + 1) - 1 = i
      BY <2>2, <3>1, <1>1
    <3>3. upTo[i + 1] = next(upTo[i], i + 1)
      BY <3>2, <1>9
    <3> QED
      BY <3>2, <3>3, <1>2
  <2> HIDE DEF T
  <2>3. Nat \subseteq T
    BY <2>1, <2>2, Induction
  <2> QED
    BY <2>3, <1>1 DEF T
<1>11. upTo \in [0..n -> Seq(E)]
  BY <1>4, <1>8, <1>10
<1> QED
  BY <1>3, <1>9, <1>11 DEF n, next, Collects

\* Where the elements of KeptBy come from: all that are connected, in order.
Chosen(g, kept, m, c, plug) ==
  /\ g \in [1..Len(kept) -> 1..m]
  /\ \A i \in 1..Len(kept) :
       kept[i] = c[g[i]] /\ plug[c[g[i]].index] # NoSignal
  /\ \A i, j \in 1..Len(kept) : i < j => g[i] < g[j]
  /\ \A j \in 1..m : plug[c[j].index] # NoSignal =>
       \E i \in 1..Len(kept) : g[i] = j

\* ConnectedOf keeps the connected ports, all of them, in their order.
LEMMA KeptOrder ==
  ASSUME NEW E, NEW c, c \in Seq(E), NEW plug
  PROVE  /\ KeptBy(c, plug) \in Seq(E)
         /\ \E g : Chosen(g, KeptBy(c, plug), Len(c), c, plug)
<1> DEFINE n == Len(c)
<1>0. PICK f : Collects(f, E, c, plug) /\ KeptBy(c, plug) = f[Len(c)]
  BY KeptUnfolds
<1>1. /\ f \in [0..n -> Seq(E)] /\ KeptBy(c, plug) = f[n] /\ f[0] = <<>>
      /\ \A i \in 1..n : f[i] = IF plug[c[i].index] # NoSignal
                               THEN Append(f[i - 1], c[i]) ELSE f[i - 1]
  BY <1>0 DEF Collects
<1>2. n \in Nat
  OBVIOUS
<1>20. \A i \in 1..n : c[i] \in E
  OBVIOUS
<1> HIDE DEF n
<1> DEFINE T == {m \in Nat : m <= n => \E g : Chosen(g, f[m], m, c, plug)}
<1>3. 0 \in T
  <2>1. Chosen(<<>>, f[0], 0, c, plug)
    BY <1>1 DEF Chosen
  <2> QED
    BY <2>1
<1>4. ASSUME NEW m \in Nat, m \in T
      PROVE  m + 1 \in T
  <2>1. SUFFICES ASSUME m + 1 <= n
                 PROVE  \E g : Chosen(g, f[m + 1], m + 1, c, plug)
    OBVIOUS
  <2>2. PICK g : Chosen(g, f[m], m, c, plug)
    <3>1. m <= n
      BY <2>1, <1>2
    <3> QED
      BY <1>4, <3>1
  <2>3. f[m] \in Seq(E) /\ m + 1 \in 1..n /\ (m + 1) - 1 = m
    BY <2>1, <1>1, <1>2
  <2>4. CASE plug[c[m + 1].index] = NoSignal
    <3>1. f[m + 1] = f[m]
      BY <2>3, <2>4, <1>1
    <3>2. Chosen(g, f[m], m + 1, c, plug)
      BY <2>2, <2>4 DEF Chosen
    <3> QED
      BY <3>1, <3>2
  <2>5. CASE plug[c[m + 1].index] # NoSignal
    <3> DEFINE k == Len(f[m])
               h == [i \in 1..k + 1 |-> IF i <= k THEN g[i] ELSE m + 1]
    <3>1. f[m + 1] = Append(f[m], c[m + 1])
      BY <2>3, <2>5, <1>1
    <3>2. /\ k \in Nat /\ Len(f[m + 1]) = k + 1
          /\ f[m + 1][k + 1] = c[m + 1]
          /\ \A i \in 1..k : f[m + 1][i] = f[m][i]
      BY <3>1, <2>3, <1>20
    <3>11. \A i \in 1..k : g[i] \in 1..m
      BY <2>2 DEF Chosen
    <3> HIDE DEF k
    <3>3. \A i \in 1..k : g[i] \in 1..m /\ h[i] = g[i]
      BY <3>2, <3>11
    <3>4. h[k + 1] = m + 1
      BY <3>2
    <3>5. h \in [1..k + 1 -> 1..m + 1]
      <4>1. \A i \in 1..k + 1 :
              (IF i <= k THEN g[i] ELSE m + 1) \in 1..m + 1
        <5> HIDE DEF h, k
        <5> QED
          BY <3>2, <3>3
      <4> HIDE DEF k
      <4> QED
        BY <4>1
    <3> HIDE DEF h, k
    <3>6. \A i \in 1..k + 1 : i \in 1..k \/ i = k + 1
      BY <3>2
    <3>7. ASSUME NEW i \in 1..k + 1
          PROVE  f[m + 1][i] = c[h[i]] /\ plug[c[h[i]].index] # NoSignal
      <4>1. CASE i \in 1..k
        BY <4>1, <3>2, <3>3, <2>2 DEF Chosen, k
      <4>2. CASE i = k + 1
        BY <4>2, <3>2, <3>4, <2>5
      <4> QED
        BY <4>1, <4>2, <3>6
    <3>8. ASSUME NEW i \in 1..k + 1, NEW j \in 1..k + 1, i < j
          PROVE  h[i] < h[j]
      <4>1. i \in 1..k
        BY <3>8, <3>2
      <4>2. CASE j \in 1..k
        BY <4>1, <4>2, <3>3, <3>8, <2>2 DEF Chosen, k
      <4>3. CASE j = k + 1
        BY <4>1, <4>3, <3>3, <3>4
      <4> QED
        BY <4>2, <4>3, <3>6
    <3>9. ASSUME NEW j \in 1..m + 1, plug[c[j].index] # NoSignal
          PROVE  \E i \in 1..k + 1 : h[i] = j
      <4>1. CASE j \in 1..m
        <5>1. PICK i \in 1..k : g[i] = j
          BY <4>1, <3>9, <2>2 DEF Chosen, k
        <5>2. h[i] = j /\ i \in 1..k + 1
          BY <5>1, <3>2, <3>3
        <5> QED
          BY <5>2
      <4>2. CASE j = m + 1
        BY <4>2, <3>2, <3>4
      <4> QED
        BY <4>1, <4>2
    <3>10. Chosen(h, f[m + 1], m + 1, c, plug)
      BY <3>2, <3>5, <3>7, <3>8, <3>9 DEF Chosen
    <3> QED
      BY <3>10
  <2> QED
    BY <2>4, <2>5
<1> HIDE DEF T
<1>5. n \in T
  BY <1>2, <1>3, <1>4, Induction
<1> QED
  BY <1>1, <1>2, <1>5 DEF T, n

\* Where the last port is the free one, all others are kept.
LEMMA KeptPrefix ==
  ASSUME NEW E, NEW c, c \in Seq(E), NEW plug, c # <<>>,
         \A i \in 1..Len(c) : plug[c[i].index] # NoSignal <=> i < Len(c)
  PROVE  KeptBy(c, plug) = [i \in 1..Len(c) - 1 |-> c[i]]
<1> DEFINE n == Len(c)
<1>0. PICK f : Collects(f, E, c, plug) /\ KeptBy(c, plug) = f[Len(c)]
  BY KeptUnfolds
<1>1. /\ f \in [0..n -> Seq(E)] /\ KeptBy(c, plug) = f[n] /\ f[0] = <<>>
      /\ \A i \in 1..n : f[i] = IF plug[c[i].index] # NoSignal
                               THEN Append(f[i - 1], c[i]) ELSE f[i - 1]
  BY <1>0 DEF Collects
<1>2. n \in Nat \ {0} /\ \A i \in 1..n : c[i] \in E
  OBVIOUS
<1>3. \A i \in 1..n : plug[c[i].index] # NoSignal <=> i < n
  OBVIOUS
<1> HIDE DEF n
<1> DEFINE T == {m \in Nat : m < n => f[m] = [i \in 1..m |-> c[i]]}
<1>4. 0 \in T
  BY <1>1
<1>5. ASSUME NEW m \in Nat, m \in T
      PROVE  m + 1 \in T
  <2>1. SUFFICES ASSUME m + 1 < n
                 PROVE  f[m + 1] = [i \in 1..m + 1 |-> c[i]]
    OBVIOUS
  <2>2. m + 1 \in 1..n /\ (m + 1) - 1 = m /\ f[m] = [i \in 1..m |-> c[i]]
    BY <1>2, <1>5, <2>1
  <2>3. f[m + 1] = Append(f[m], c[m + 1])
    BY <1>1, <1>3, <2>1, <2>2
  <2>4. f[m] \in Seq(E) /\ Len(f[m]) = m /\ \A i \in 1..m : f[m][i] = c[i]
    BY <1>2, <2>2
  <2> QED
    BY <2>3, <2>4, <2>2, <1>2
<1> HIDE DEF T
<1>6. n - 1 \in T
  <2>1. Nat \subseteq T
    BY <1>4, <1>5, Induction
  <2> QED
    BY <2>1, <1>2
<1>7. f[n] = f[n - 1]
  <2>1. n \in 1..n /\ ~ (n < n)
    BY <1>2
  <2> QED
    BY <2>1, <1>1, <1>3
<1> QED
  BY <1>1, <1>2, <1>6, <1>7 DEF T, n

-----------------------------------------------------------------------------
(* Lists of ports. *)

\* A port with its preview, and what is true of a list of them: their indexes
\* ascend; the last one is the free one; every signal is on one of them.
Context == [index : Indexes, preview : {"none", "own", "common"}]

AscendingIn(c) == \A i, j \in 1..Len(c) : i < j => c[i].index < c[j].index
ShapedBy(c, plug) ==
  \A i \in 1..Len(c) : plug[c[i].index] # NoSignal <=> i < Len(c)
CoveredBy(c, plug) ==
  \A p \in Indexes : plug[p] # NoSignal =>
    p <= MaxPort /\ \E i \in 1..Len(c) : c[i].index = p

\* The type of signalContexts.
LEMMA ContextsAre == Contexts = Seq(Context)
  BY DEF Contexts, Context

\* Where the last port is the free one, the signals are those of the others.
LEMMA ShapedSignals ==
  ASSUME NEW c, c \in Seq(Context), c # <<>>, NEW plug, ShapedBy(c, plug)
  PROVE  /\ KeptBy(c, plug) = [i \in 1..Len(c) - 1 |-> c[i]]
         /\ SignalsBy(c, plug) = [i \in 1..Len(c) - 1 |-> plug[c[i].index]]
<1>1. KeptBy(c, plug) = [i \in 1..Len(c) - 1 |-> c[i]]
  BY KeptPrefix DEF ShapedBy
<1> QED
  BY <1>1 DEF SignalsBy

\* d is s with e at its end.
Extends(d, s, e, E) ==
  /\ d \in Seq(E) /\ Len(d) = Len(s) + 1
  /\ \A i \in 1..Len(s) : d[i] = s[i]
  /\ d[Len(s) + 1] = e

\* What Append does.
LEMMA Appending ==
  ASSUME NEW E, NEW s, s \in Seq(E), NEW e, e \in E
  PROVE  Extends(Append(s, e), s, e, E)
  BY DEF Extends

\* clearPorts: d holds the ports of c with a signal, in order, and a free one.
IsCleared(d, c, plug) ==
  /\ d \in Seq(Context) /\ d # <<>>
  /\ AscendingIn(d) /\ ShapedBy(d, plug) /\ CoveredBy(d, plug)
  /\ d[Len(d)].preview = "none"
  /\ \A j \in 1..Len(d) - 1 : \E i \in 1..Len(c) :
       d[j] = c[i] /\ plug[c[i].index] # NoSignal
  /\ \A i \in 1..Len(c) : plug[c[i].index] # NoSignal =>
       \E j \in 1..Len(d) - 1 : d[j] = c[i]

\* ClearPorts with what is plugged in as a parameter.
ClearedBy(c, plug) ==
  LET kept == KeptBy(c, plug)
      index == IF kept = <<>> THEN 0 ELSE Last(kept).index + 1
  IN  Append(kept, [index |-> index, preview |-> "none"])

\* clearPorts leaves ascending indexes, one free port, the last, and drops no
\* signal: the index it gives to the new port is that of no signal.
LEMMA Cleared ==
  ASSUME NEW c, c \in Seq(Context), NEW plug,
         AscendingIn(c), CoveredBy(c, plug)
  PROVE  IsCleared(ClearedBy(c, plug), c, plug)
<1> DEFINE kept == KeptBy(c, plug)
           k == Len(kept)
           p == IF kept = <<>> THEN 0 ELSE Last(kept).index + 1
           d == ClearedBy(c, plug)
<1>0. MaxPort \in Nat
  BY PublisherAssumption
<1>1. kept \in Seq(Context)
  BY KeptOrder
<1>2. PICK g : Chosen(g, kept, Len(c), c, plug)
  BY KeptOrder
<1>3. /\ k \in Nat
      /\ \A i \in 1..k : g[i] \in 1..Len(c) /\ kept[i] = c[g[i]]
                         /\ plug[c[g[i]].index] # NoSignal
      /\ \A i, j \in 1..k : i < j => g[i] < g[j]
      /\ \A j \in 1..Len(c) : plug[c[j].index] # NoSignal =>
           \E i \in 1..k : g[i] = j
  <2>1. k \in Nat
    BY <1>1
  <2> HIDE DEF kept
  <2>2. \A i \in 1..k : g[i] \in 1..Len(c)
    BY <1>2 DEF Chosen
  <2> QED
    BY <2>1, <2>2, <1>2 DEF Chosen
<1>4. \A i \in 1..Len(c) : c[i] \in Context /\ c[i].index \in Indexes
  <2>1. \A i \in 1..Len(c) : c[i] \in Context
    OBVIOUS
  <2> QED
    BY <2>1 DEF Context
<1>5. \A i \in 1..k : kept[i].index \in 0..MaxPort /\ kept[i] \in Context
  BY <1>3, <1>4 DEF CoveredBy, Indexes
<1>6. \A i, j \in 1..k : i < j => kept[i].index < kept[j].index
  BY <1>3 DEF AscendingIn
<1>7. /\ kept = <<>> <=> k = 0
      /\ k # 0 => Last(kept) = kept[k]
  BY <1>1 DEF Last
<1>8. d = Append(kept, [index |-> p, preview |-> "none"])
  BY DEF ClearedBy
<1>80. p = IF kept = <<>> THEN 0 ELSE Last(kept).index + 1
  BY DEF p
<1> HIDE DEF kept, k, p, d
<1>9. p \in 0..MaxPort + 1 /\ \A i \in 1..k : kept[i].index < p
  <2>1. CASE k = 0
    BY <2>1, <1>7, <1>80, <1>0
  <2>2. CASE k # 0
    <3>1. k \in 1..k /\ p = kept[k].index + 1
      BY <2>2, <1>3, <1>7, <1>80
    <3>2. p \in 0..MaxPort + 1
      BY <3>1, <1>0, <1>5
    <3>3. ASSUME NEW i \in 1..k PROVE kept[i].index < p
      <4>1. i < k \/ i = k
        BY <1>3
      <4>2. kept[i].index <= kept[k].index
        BY <4>1, <1>5, <1>6, <3>1
      <4>3. kept[i].index \in Int /\ kept[k].index \in Int
        BY <3>1, <1>5
      <4> QED
        BY <3>1, <4>2, <4>3
    <3> QED
      BY <3>2, <3>3
  <2> QED
    BY <2>1, <2>2
<1>10. /\ d \in Seq(Context) /\ Len(d) = k + 1
       /\ \A i \in 1..k : d[i] = kept[i]
       /\ d[k + 1] = [index |-> p, preview |-> "none"]
  <2>1. [index |-> p, preview |-> "none"] \in Context
    BY <1>9 DEF Context, Indexes
  <2>2. Extends(d, kept, [index |-> p, preview |-> "none"], Context)
    BY <2>1, <1>1, <1>8, Appending
  <2> QED
    BY <2>2 DEF k, Extends
<1>11. \A i \in 1..k + 1 : i \in 1..k \/ i = k + 1
  BY <1>3
<1>12. AscendingIn(d)
  <2>1. ASSUME NEW i \in 1..k + 1, NEW j \in 1..k + 1, i < j
        PROVE  d[i].index < d[j].index
    <3>1. i \in 1..k
      BY <2>1, <1>3
    <3>2. CASE j \in 1..k
      BY <3>1, <3>2, <2>1, <1>6, <1>10
    <3>3. CASE j = k + 1
      BY <3>1, <3>3, <1>9, <1>10
    <3> QED
      BY <3>2, <3>3, <1>11
  <2> QED
    BY <2>1, <1>10 DEF AscendingIn
<1>13. plug[p] = NoSignal
  <2>1. SUFFICES ASSUME plug[p] # NoSignal PROVE FALSE
    OBVIOUS
  <2>2. PICK j \in 1..Len(c) : c[j].index = p
    BY <2>1, <1>9 DEF CoveredBy, Indexes
  <2>3. PICK i \in 1..k : g[i] = j
    BY <2>1, <2>2, <1>3
  <2>4. kept[i].index = p
    BY <2>2, <2>3, <1>3
  <2>5. kept[i].index < p
    BY <2>3, <1>9
  <2> QED
    BY <2>4, <2>5, <1>9
<1>14. ShapedBy(d, plug)
  <2>1. ASSUME NEW i \in 1..k
        PROVE  plug[d[i].index] # NoSignal /\ i < k + 1
    BY <1>3, <1>10
  <2>2. plug[d[k + 1].index] = NoSignal /\ ~ (k + 1 < k + 1)
    BY <1>3, <1>10, <1>13
  <2> QED
    BY <2>1, <2>2, <1>10, <1>11 DEF ShapedBy
<1>15. \A i \in 1..Len(c) : plug[c[i].index] # NoSignal =>
         \E j \in 1..k : d[j] = c[i]
  BY <1>3, <1>10
<1>16. CoveredBy(d, plug)
  <2>1. ASSUME NEW q \in Indexes, plug[q] # NoSignal
        PROVE  q <= MaxPort /\ \E i \in 1..Len(d) : d[i].index = q
    <3>1. PICK i \in 1..Len(c) : c[i].index = q
      BY <2>1 DEF CoveredBy
    <3>2. PICK j \in 1..k : d[j] = c[i]
      BY <2>1, <3>1, <1>15
    <3>3. j \in 1..Len(d) /\ d[j].index = q
      BY <3>1, <3>2, <1>3, <1>10
    <3> QED
      BY <2>1, <3>3 DEF CoveredBy
  <2> QED
    BY <2>1 DEF CoveredBy
<1>17. ASSUME NEW j \in 1..k
       PROVE  \E i \in 1..Len(c) :
                d[j] = c[i] /\ plug[c[i].index] # NoSignal
  <2>1. g[j] \in 1..Len(c) /\ d[j] = c[g[j]] /\ plug[c[g[j]].index] # NoSignal
    BY <1>3, <1>10
  <2> QED
    BY <2>1
<1>18. d # <<>> /\ Len(d) - 1 = k /\ d[Len(d)].preview = "none"
  BY <1>3, <1>10
<1> QED
  BY <1>10, <1>12, <1>14, <1>15, <1>16, <1>17, <1>18 DEF IsCleared, d

-----------------------------------------------------------------------------
(* Readers, validation and queues. *)

\* The types of a handler, of a queue, and of the records that a step hands on.
Handlers == [ports : Seq(Indexes \cup {NoPort}), buffers : Nat,
             first : BOOLEAN]
Packets == Seq({"event", "data"})
Blocks == [contexts : Seq(Context) \ {<<>>}, error : BOOLEAN,
           skipped : BOOLEAN, handler : Handlers,
           queue : [Indexes -> Packets], failed : BOOLEAN]

\* What a new reader finds first on its ports is a descriptor packet.
FreshBy(h, q, plug) ==
  h.first => \A p \in Range(h.ports) : p # NoPort /\ plug[p] # NoSignal =>
    q[p] # <<>> /\ Head(q[p]) = "event"

\* The reader of all ports but the free one.
Reads(h, contexts) ==
  /\ h.buffers = Len(contexts) - 1
  /\ h.ports = [i \in 1..Len(contexts) - 1 |-> contexts[i].index]

\* The ports that a new reader is built on are ports.
LEMMA IndexesKept ==
  ASSUME NEW c, c \in Seq(Context), NEW plug, NEW ports,
         ports = [i \in DOMAIN KeptBy(c, plug) |-> KeptBy(c, plug)[i].index]
  PROVE  ports \in Seq(Indexes) /\ Range(ports) \subseteq Indexes
<1> DEFINE kept == KeptBy(c, plug)
<1>1. kept \in Seq(Context)
  BY KeptOrder
<1>2. ports = [i \in DOMAIN kept |-> kept[i].index]
  OBVIOUS
<1> HIDE DEF kept
<1>3. Len(kept) \in Nat /\ DOMAIN kept = 1..Len(kept)
  BY <1>1
<1>4. \A i \in 1..Len(kept) : kept[i] \in Context
  BY <1>1
<1>5. \A i \in 1..Len(kept) : kept[i].index \in Indexes
  BY <1>4 DEF Context
<1>6. ports \in [1..Len(kept) -> Indexes]
  BY <1>2, <1>3, <1>5
<1>7. ports \in Seq(Indexes)
  BY <1>3, <1>6
<1> QED
  BY <1>6, <1>7 DEF Range

\* What signalListChanged makes of st, if the ports have the shape it counts on.
ListChanges(v, st) ==
  /\ v \in Blocks /\ FreshBy(v.handler, v.queue, plugged)
  /\ v.contexts = st.contexts /\ v.error = st.error /\ v.skipped = st.skipped
  /\ v.failed = st.failed
  /\ ShapedBy(st.contexts, plugged) => Reads(v.handler, st.contexts)

\* signalListChanged: the reader is that of all ports but the free one.
LEMMA ListChanged ==
  ASSUME NEW st, st \in Blocks, FreshBy(st.handler, st.queue, plugged)
  PROVE  ListChanges(SignalListChanged(st), st)
<1> DEFINE c == st.contexts
           on == ConnectedOf(c)
           n == Len(c) - 1
           ports == [i \in DOMAIN on |-> on[i].index]
           h == [ports |-> ports, buffers |-> n, first |-> TRUE]
           q == [p \in Indexes |-> IF p \in Range(ports)
                       THEN <<"event">> \o st.queue[p] ELSE st.queue[p]]
<1>0. on = KeptBy(c, plugged)
  BY KeptNow
<1>1. c \in Seq(Context) /\ c # <<>>
  BY DEF Blocks
<1>2. ports \in Seq(Indexes) /\ Range(ports) \subseteq Indexes
  BY <1>0, <1>1, IndexesKept
<1>3. n \in Nat
  BY <1>1
<1>4. SignalListChanged(st) = [st EXCEPT !.handler = h, !.queue = q]
  BY DEF SignalListChanged, Blocks
<1>5. h \in Handlers
  <2>1. ports \in Seq(Indexes \cup {NoPort})
    <3> HIDE DEF ports
    <3> QED
      BY <1>2
  <2> HIDE DEF ports, n
  <2> QED
    BY <1>3, <2>1 DEF Handlers
<1>6. q \in [Indexes -> Packets]
  <2>1. \A p \in Indexes : /\ st.queue[p] \in Packets
                           /\ <<"event">> \o st.queue[p] \in Packets
    <3>1. \A p \in Indexes : st.queue[p] \in Packets
      BY DEF Blocks
    <3> QED
      BY <3>1 DEF Packets
  <2> HIDE DEF ports
  <2> QED
    BY <2>1
<1>7. FreshBy(h, q, plugged)
  <2>1. ASSUME NEW p \in Range(ports)
        PROVE  q[p] # <<>> /\ Head(q[p]) = "event"
    <3>1. p \in Indexes /\ q[p] = <<"event">> \o st.queue[p]
      BY <1>2, <2>1
    <3>2. st.queue[p] \in Packets
      BY <3>1 DEF Blocks
    <3> HIDE DEF q
    <3> QED
      BY <3>1, <3>2 DEF Packets
  <2> HIDE DEF q, ports
  <2> QED
    BY <2>1 DEF FreshBy
<1>8. ShapedBy(c, plugged) => Reads(h, c)
  <2>1. SUFFICES ASSUME ShapedBy(c, plugged) PROVE Reads(h, c)
    OBVIOUS
  <2>2. on = [i \in 1..n |-> c[i]]
    BY <1>0, <1>1, <2>1, ShapedSignals
  <2> HIDE DEF on
  <2>3. ports = [i \in 1..n |-> c[i].index]
    BY <2>2
  <2> HIDE DEF ports
  <2> QED
    BY <2>3 DEF Reads
<1> HIDE DEF h, q, c
<1>9. /\ SignalListChanged(st) \in Blocks
      /\ SignalListChanged(st).handler = h
      /\ SignalListChanged(st).queue = q
      /\ SignalListChanged(st).contexts = st.contexts
      /\ SignalListChanged(st).error = st.error
      /\ SignalListChanged(st).skipped = st.skipped
      /\ SignalListChanged(st).failed = st.failed
  BY <1>4, <1>5, <1>6 DEF Blocks
<1> QED
  BY <1>7, <1>8, <1>9 DEF c, ListChanges

\* What validateInputPorts makes of st.
Validates(v, st, set) ==
  /\ v \in Blocks /\ FreshBy(v.handler, v.queue, plugged)
  /\ v.contexts = st.contexts
  /\ ~set.single => v.handler = st.handler
  /\ v.failed = st.failed
  /\ ShapedBy(st.contexts, plugged) /\ ~Throws(st.contexts, set) =>
       /\ v.error = ~Accepts(st.contexts, set)
       /\ set.single /\ ~v.error /\ Len(st.contexts) > 1 =>
            Reads(v.handler, st.contexts)

\* Without signals there is nothing to object to.
LEMMA AcceptsNone ==
  ASSUME NEW c, c \in Seq(Context), Len(c) = 1, ShapedBy(c, plugged), NEW set
  PROVE  Accepts(c, set)
<1>1. SignalsOn(c) = [i \in 1..Len(c) - 1 |-> plugged[c[i].index]]
  BY SignalsNow, ShapedSignals
<1>2. DOMAIN SignalsOn(c) = {}
  BY <1>1
<1> QED
  BY <1>2 DEF Accepts, IsInjective

\* validateInputPorts: if no exception leaves it, hasSignalError is what validation
\* says, and without an error the reader is that of the ports.
LEMMA Validated ==
  ASSUME NEW st, st \in Blocks, FreshBy(st.handler, st.queue, plugged),
         NEW set
  PROVE  Validates(ValidateInputPorts(st, set), st, set)
<1> DEFINE ok == Accepts(st.contexts, set)
           one == [st EXCEPT !.error = FALSE, !.skipped = FALSE]
           checked == [st EXCEPT !.error = ~ok, !.skipped = FALSE]
           left == [st EXCEPT !.skipped = FALSE]
           unreadable == Unreadable(st.contexts, set)
<1>1. st.contexts \in Seq(Context)
  BY DEF Blocks
<1>2. ValidateInputPorts(st, set) =
        IF Len(st.contexts) = 1 THEN one
        ELSE IF unreadable THEN left
        ELSE IF ok /\ set.single THEN SignalListChanged(checked) ELSE checked
  BY DEF ValidateInputPorts
<1>3. ok \in BOOLEAN
  BY DEF Accepts
<1> HIDE DEF ok, unreadable
<1>4. /\ one \in Blocks /\ checked \in Blocks
      /\ one.handler = st.handler /\ checked.handler = st.handler
      /\ one.queue = st.queue /\ checked.queue = st.queue
      /\ one.contexts = st.contexts /\ checked.contexts = st.contexts
      /\ one.failed = st.failed /\ checked.failed = st.failed
      /\ one.error = FALSE /\ checked.error = ~ok
  BY <1>3 DEF Blocks
<1>4a. /\ left \in Blocks /\ left.handler = st.handler
      /\ left.queue = st.queue /\ left.contexts = st.contexts
      /\ left.failed = st.failed
  BY DEF Blocks
<1> HIDE DEF one, checked, left
<1>5. CASE Len(st.contexts) = 1
  <2>1. ShapedBy(st.contexts, plugged) => ok
    BY <1>1, <1>5, AcceptsNone DEF ok
  <2>2. ShapedBy(st.contexts, plugged) => one.error = ~ok
    BY <1>3, <1>4, <2>1
  <2>3. ValidateInputPorts(st, set) = one /\ ~ (Len(st.contexts) > 1)
    BY <1>2, <1>5
  <2> QED
    BY <1>4, <2>2, <2>3 DEF Validates, ok
<1>5a. CASE Len(st.contexts) # 1 /\ unreadable
  <2>1. Throws(st.contexts, set)
    BY <1>5a DEF Throws, unreadable
  <2> QED
    BY <1>2, <1>4a, <1>5a, <2>1 DEF Validates
<1>6. CASE Len(st.contexts) # 1 /\ ~unreadable /\ ok /\ set.single
  <2>1. ListChanges(SignalListChanged(checked), checked)
    BY <1>4, ListChanged
  <2> QED
    BY <1>2, <1>4, <1>6, <2>1 DEF Validates, ListChanges, ok
<1>7. CASE Len(st.contexts) # 1 /\ ~unreadable /\ ~ (ok /\ set.single)
  BY <1>2, <1>4, <1>7, <1>3 DEF Validates, ok
<1> QED
  BY <1>5, <1>6, <1>7, <1>5a

\* The places of the descriptor packets in a queue.
Events(q) == {i \in DOMAIN q : q[i] = "event"}

\* UnreadChange with the handler, the queues and the plugs as parameters.
UnreadBy(p, h, q, plug) ==
  /\ plug[p] # NoSignal
  /\ Cardinality({i \in DOMAIN q[p] : q[p][i] = "event"}) >
       (IF p \in Range(h.ports) /\ h.first THEN 1 ELSE 0)

\* Counting to two.
LEMMA HowMany ==
  ASSUME NEW q, q \in Packets
  PROVE  /\ Cardinality(Events(q)) \in Nat
         /\ Cardinality(Events(q)) > 0 <=> \E i \in 1..Len(q) : q[i] = "event"
         /\ Cardinality(Events(q)) > 1 <=>
              \E i, j \in 1..Len(q) : i < j /\ q[i] = "event" /\ q[j] = "event"
<1> DEFINE n == Len(q)
           S == Events(q)
           two == \E i, j \in 1..n : i < j /\ q[i] = "event" /\ q[j] = "event"
<1>1. n \in Nat /\ DOMAIN q = 1..n
  BY DEF Packets
<1> HIDE DEF n
<1>2. S = {i \in 1..n : q[i] = "event"}
  BY <1>1 DEF Events
<1>3. IsFiniteSet(S) /\ Cardinality(S) \in Nat
  <2>1. IsFiniteSet(1..n) /\ S \in SUBSET (1..n)
    BY <1>1, <1>2, FS_Interval
  <2>2. IsFiniteSet(S)
    BY <2>1, FS_Subset
  <2> QED
    BY <2>2, FS_CardinalityType
<1>4. Cardinality(S) = 0 <=> S = {}
  BY <1>3, FS_EmptySet
<1>5. Cardinality(S) = 1 <=> \E x : S = {x}
  BY <1>3, FS_Singleton
<1>6. two <=> S # {} /\ ~ \E x : S = {x}
  <2>1. ASSUME two PROVE S # {} /\ ~ \E x : S = {x}
    BY <2>1, <1>1, <1>2
  <2>2. ASSUME S # {}, ~ \E x : S = {x} PROVE two
    <3>1. PICK i \in S : TRUE
      BY <2>2
    <3>2. PICK j \in S : j # i
      BY <2>2, <3>1
    <3>3. i \in 1..n /\ j \in 1..n /\ q[i] = "event" /\ q[j] = "event"
      BY <3>1, <3>2, <1>2
    <3>4. i < j \/ j < i
      BY <3>2, <3>3, <1>1
    <3> QED
      BY <3>3, <3>4
  <2> QED
    BY <2>1, <2>2
<1> HIDE DEF S, two
<1>7. Cardinality(S) > 1 <=> two
  BY <1>3, <1>4, <1>5, <1>6
<1>8. Cardinality(S) > 0 <=> \E i \in 1..n : q[i] = "event"
  BY <1>2, <1>3, <1>4
<1> QED
  BY <1>3, <1>7, <1>8 DEF S, two, n

\* More packets at the end do not hide one.
LEMMA MoreEvents ==
  ASSUME NEW q, q \in Packets, NEW x, x \in {"event", "data"}, NEW r,
         r = Append(q, x)
  PROVE  /\ r \in Packets /\ r # <<>>
         /\ q # <<>> => Head(r) = Head(q)
         /\ Cardinality(Events(q)) > 0 => Cardinality(Events(r)) > 0
         /\ Cardinality(Events(q)) > 1 => Cardinality(Events(r)) > 1
         /\ x = "event" => Cardinality(Events(r)) > 0
         /\ x = "event" /\ q # <<>> /\ Head(q) = "event" =>
              Cardinality(Events(r)) > 1
<1>1. /\ r \in Packets /\ r # <<>> /\ Len(r) = Len(q) + 1
      /\ \A i \in 1..Len(q) : r[i] = q[i]
      /\ r[Len(q) + 1] = x /\ Len(q) \in Nat
      /\ q # <<>> => Len(q) > 0 /\ Head(q) = q[1] /\ Head(r) = r[1]
  BY DEF Packets
<1>2. 1..Len(q) \subseteq 1..Len(r) /\ Len(q) + 1 \in 1..Len(r)
  BY <1>1
<1>3. /\ Cardinality(Events(q)) > 0 => \E i \in 1..Len(q) : q[i] = "event"
      /\ Cardinality(Events(q)) > 1 =>
           \E i, j \in 1..Len(q) : i < j /\ q[i] = "event" /\ q[j] = "event"
  BY HowMany
<1>4. /\ (\E i \in 1..Len(r) : r[i] = "event") => Cardinality(Events(r)) > 0
      /\ (\E i, j \in 1..Len(r) : i < j /\ r[i] = "event" /\ r[j] = "event") =>
           Cardinality(Events(r)) > 1
  BY <1>1, HowMany
<1>5. q # <<>> => Head(r) = Head(q)
  BY <1>1
<1>6. Cardinality(Events(q)) > 0 => Cardinality(Events(r)) > 0
  BY <1>1, <1>2, <1>3, <1>4
<1>7. Cardinality(Events(q)) > 1 => Cardinality(Events(r)) > 1
  BY <1>1, <1>2, <1>3, <1>4
<1>8. x = "event" => Cardinality(Events(r)) > 0
  BY <1>1, <1>2, <1>4
<1>9. ASSUME x = "event", q # <<>>, Head(q) = "event"
      PROVE  Cardinality(Events(r)) > 1
  <2>1. /\ 1 \in 1..Len(r) /\ Len(q) + 1 \in 1..Len(r) /\ 1 < Len(q) + 1
        /\ r[1] = "event" /\ r[Len(q) + 1] = "event"
    BY <1>1, <1>2, <1>9
  <2> QED
    BY <2>1, <1>4
<1> QED
  BY <1>1, <1>5, <1>6, <1>7, <1>8, <1>9

\* Taking the head off takes one event at most, and none if it is data.
LEMMA LessEvents ==
  ASSUME NEW q, q \in Packets, q # <<>>
  PROVE  /\ Tail(q) \in Packets
         /\ Cardinality(Events(q)) > 1 => Cardinality(Events(Tail(q))) > 0
         /\ Head(q) = "data" =>
              /\ Cardinality(Events(q)) > 0 => Cardinality(Events(Tail(q))) > 0
              /\ Cardinality(Events(q)) > 1 => Cardinality(Events(Tail(q))) > 1
<1> DEFINE r == Tail(q)
<1>1. /\ r \in Packets /\ Len(q) \in Nat \ {0} /\ Len(r) = Len(q) - 1
      /\ \A i \in 1..Len(r) : r[i] = q[i + 1]
      /\ Head(q) = q[1]
  BY DEF Packets
<1> HIDE DEF r
<1>2. \A i \in 1..Len(q) : i > 1 => i - 1 \in 1..Len(r) /\ r[i - 1] = q[i]
  BY <1>1
<1>3. /\ Cardinality(Events(q)) > 0 => \E i \in 1..Len(q) : q[i] = "event"
      /\ Cardinality(Events(q)) > 1 =>
           \E i, j \in 1..Len(q) : i < j /\ q[i] = "event" /\ q[j] = "event"
  BY HowMany
<1>4. /\ (\E i \in 1..Len(r) : r[i] = "event") => Cardinality(Events(r)) > 0
      /\ (\E i, j \in 1..Len(r) : i < j /\ r[i] = "event" /\ r[j] = "event") =>
           Cardinality(Events(r)) > 1
  BY <1>1, HowMany
<1>5. ASSUME Cardinality(Events(q)) > 1
      PROVE  Cardinality(Events(r)) > 0
  <2>1. PICK i, j \in 1..Len(q) : i < j /\ q[i] = "event" /\ q[j] = "event"
    BY <1>3, <1>5
  <2>2. j - 1 \in 1..Len(r) /\ r[j - 1] = "event"
    BY <1>2, <2>1
  <2> QED
    BY <2>2, <1>4
<1>6. ASSUME Head(q) = "data", Cardinality(Events(q)) > 0
      PROVE  Cardinality(Events(r)) > 0
  <2>1. PICK i \in 1..Len(q) : q[i] = "event"
    BY <1>3, <1>6
  <2>2. i - 1 \in 1..Len(r) /\ r[i - 1] = "event"
    BY <1>1, <1>2, <1>6, <2>1
  <2> QED
    BY <2>2, <1>4
<1>7. ASSUME Head(q) = "data", Cardinality(Events(q)) > 1
      PROVE  Cardinality(Events(r)) > 1
  <2>1. PICK i, j \in 1..Len(q) : i < j /\ q[i] = "event" /\ q[j] = "event"
    BY <1>3, <1>7
  <2>2. /\ i - 1 \in 1..Len(r) /\ r[i - 1] = "event"
        /\ j - 1 \in 1..Len(r) /\ r[j - 1] = "event" /\ i - 1 < j - 1
    BY <1>1, <1>2, <1>7, <2>1
  <2> QED
    BY <2>2, <1>4
<1> QED
  BY <1>1, <1>5, <1>6, <1>7 DEF r

-----------------------------------------------------------------------------
(* processSignalContexts. *)

\* The place of the first descriptor packet.
FirstEvent(q) == SelectInSeq(q, LAMBDA x : x = "event")

\* FirstEvent finds one if there is one.
LEMMA FirstIsOne ==
  ASSUME NEW q, q \in Packets
  PROVE  /\ FirstEvent(q) \in 0..Len(q)
         /\ FirstEvent(q) = 0 <=> \A i \in 1..Len(q) : q[i] # "event"
<1> DEFINE I == {i \in 1..Len(q) : q[i] = "event"}
<1>1. FirstEvent(q) = IF I # {} THEN Min(I) ELSE 0
  BY DEF FirstEvent, SelectInSeq
<1>2. Len(q) \in Nat
  BY DEF Packets
<1>3. CASE I = {}
  BY <1>1, <1>2, <1>3
<1>4. CASE I # {}
  <2>1. I \subseteq Nat
    OBVIOUS
  <2> HIDE DEF I
  <2>2. \E x \in I : \A y \in I : x <= y
    BY <1>4, <2>1, LeastElement
  <2>3. Min(I) \in I
    BY <2>2 DEF Min
  <2> QED
    BY <1>1, <1>2, <1>4, <2>3 DEF I
<1> QED
  BY <1>3, <1>4

\* What processSignalContexts makes of st.
Processes(got, st) ==
  /\ got.st \in Blocks /\ FreshBy(got.st.handler, got.st.queue, plugged)
  /\ got.st.contexts = st.contexts /\ got.st.error = st.error
  /\ got.st.skipped = st.skipped
  /\ got.st.handler.ports = st.handler.ports
  /\ got.st.handler.buffers = st.handler.buffers
  /\ ~got.needRevalidation => \A p \in Indexes :
       UnreadBy(p, st.handler, st.queue, plugged) =>
         UnreadBy(p, got.st.handler, got.st.queue, plugged)

\* The handlers for one signal read all there is, or validate.
LEMMA ProcessedEach ==
  ASSUME NEW st, st \in Blocks, FreshBy(st.handler, st.queue, plugged),
         CoveredBy(st.contexts, plugged), st.handler.ports = <<>>
  PROVE  Processes(ProcessEach(st), st)
<1> DEFINE first(p) == FirstEvent(st.queue[p])
           read == {p \in Indexes : /\ plugged[p] # NoSignal
                                    /\ \E i \in DOMAIN st.contexts :
                                         st.contexts[i].index = p}
           q == [p \in Indexes |->
                   IF p \notin read THEN st.queue[p]
                   ELSE IF first(p) = 0 THEN <<>>
                   ELSE SubSeq(st.queue[p], first(p) + 1, Len(st.queue[p]))]
           again == \E p \in read : first(p) # 0
<1>1. /\ ProcessEach(st).st = [st EXCEPT !.queue = q]
      /\ ProcessEach(st).needRevalidation = again
  BY DEF ProcessEach, FirstEvent, Blocks
<1>2. \A p \in Indexes : st.queue[p] \in Packets
  BY DEF Blocks
<1>3. \A p \in Indexes : first(p) \in 0..Len(st.queue[p])
  BY <1>2, FirstIsOne
<1>4. DOMAIN st.contexts = 1..Len(st.contexts)
  BY DEF Blocks
<1>5. \A p \in Indexes : plugged[p] # NoSignal => p \in read
  BY <1>4 DEF CoveredBy
<1>6. \A p \in Indexes : <<>> \in Packets /\
        SubSeq(st.queue[p], first(p) + 1, Len(st.queue[p])) \in Packets
  <2> HIDE DEF first
  <2>1. ASSUME NEW s, s \in Packets, NEW m \in 0..Len(s)
        PROVE  SubSeq(s, m + 1, Len(s)) \in Packets
    BY <2>1 DEF Packets
  <2>2. <<>> \in Packets
    BY DEF Packets
  <2> QED
    BY <1>2, <1>3, <2>1, <2>2
<1> HIDE DEF first
<1>7. q \in [Indexes -> Packets]
  <2> HIDE DEF read
  <2> QED
    BY <1>2, <1>6
<1> HIDE DEF q
<1>8. /\ ProcessEach(st).st \in Blocks
      /\ ProcessEach(st).st.contexts = st.contexts
      /\ ProcessEach(st).st.error = st.error
      /\ ProcessEach(st).st.skipped = st.skipped
      /\ ProcessEach(st).st.handler = st.handler
  BY <1>1, <1>7 DEF Blocks
<1>9. FreshBy(st.handler, ProcessEach(st).st.queue, plugged)
  <2>1. Range(st.handler.ports) = {}
    BY DEF Range
  <2> QED
    BY <2>1 DEF FreshBy
<1>10. ASSUME NEW p \in Indexes, UnreadBy(p, st.handler, st.queue, plugged)
       PROVE  again
  <2>1. p \in read /\ Cardinality(Events(st.queue[p])) > 0
    <3>1. ~ (p \in Range(st.handler.ports) /\ st.handler.first)
      BY DEF Range
    <3> QED
      BY <1>5, <1>10, <3>1 DEF UnreadBy, Events
  <2>2. \E i \in 1..Len(st.queue[p]) : st.queue[p][i] = "event"
    BY <1>2, <2>1, HowMany
  <2>3. first(p) # 0
    BY <1>2, <2>2, FirstIsOne DEF first
  <2> QED
    BY <2>1, <2>3
<1> HIDE DEF again
<1> QED
  BY <1>1, <1>8, <1>9, <1>10 DEF Processes

\* The handlers for all signals validate after a change, but for the first
\* packets of a new reader.
LEMMA ProcessedGroup ==
  ASSUME NEW st, st \in Blocks, FreshBy(st.handler, st.queue, plugged)
  PROVE  Processes(ProcessGroup(st), st)
<1> DEFINE ports == Range(st.handler.ports)
           valid == \A p \in ports : p # NoPort /\ plugged[p] # NoSignal
           at(what) == {p \in ports \ {NoPort} :
                          st.queue[p] # <<>> /\ Head(st.queue[p]) = what}
           without(read) == [p \in Indexes |-> IF p \in read
                                               THEN Tail(st.queue[p])
                                               ELSE st.queue[p]]
           data == ports # {} /\ at("event") = {} /\ valid
                   /\ at("data") = ports
           change == at("event") # {}
           q == IF change THEN without(at("event"))
                ELSE IF data THEN without(ports) ELSE st.queue
           h == [st.handler EXCEPT !.first = @ /\ ~change]
           fails == data /\
                      \/ Len(st.handler.ports) > st.handler.buffers
                      \/ Len(st.contexts) - 1 > st.handler.buffers
                      \/ Gap(st.contexts)
                      \/ \E s \in Range(SignalsOn(st.contexts)) :
                           descriptor[s].value = "none"
           again == (change /\ ~st.handler.first) \/ ~valid
           next == ProcessGroup(st).st
<1>1. /\ next = [st EXCEPT !.queue = q, !.handler = h, !.failed = fails]
      /\ ProcessGroup(st).needRevalidation = again
  BY DEF ProcessGroup, Blocks
<1>2. \A p \in Indexes : st.queue[p] \in Packets
  BY DEF Blocks
<1>3. /\ st.handler \in Handlers /\ st.queue \in [Indexes -> Packets]
      /\ st.handler.first \in BOOLEAN
  BY DEF Blocks, Handlers
<1>4. ports \subseteq Indexes \cup {NoPort}
  BY <1>3 DEF Handlers, Range
<1>5. at("event") \subseteq Indexes /\ at("data") \subseteq Indexes
  BY <1>4
<1>6. \A what \in {"event", "data"} : \A p \in at(what) :
        st.queue[p] # <<>> /\ Head(st.queue[p]) = what
  OBVIOUS
<1>7. valid /\ st.handler.first => ports \subseteq at("event")
  BY <1>4 DEF FreshBy
<1>8. data => ~st.handler.first /\ ports \subseteq Indexes
              /\ \A p \in ports : st.queue[p] # <<>> /\ Head(st.queue[p]) = "data"
  BY <1>5, <1>6, <1>7
<1>9. change \in BOOLEAN /\ data \in BOOLEAN
  OBVIOUS
<1>10. \A p \in Indexes : p \notin at("event") /\ p \in ports =>
         st.queue[p] = <<>> \/ Head(st.queue[p]) # "event"
  BY DEF Indexes, NoPort
<1> HIDE DEF at, ports, valid
<1>11. \A p \in Indexes :
         q[p] = IF \/ change /\ p \in at("event")
                   \/ ~change /\ data /\ p \in ports
                THEN Tail(st.queue[p]) ELSE st.queue[p]
  BY DEF q
<1>12. \A p \in Indexes : q[p] \in Packets
  BY <1>2, <1>6, <1>8, <1>11, LessEvents
<1>13. q \in [Indexes -> Packets]
  BY <1>3, <1>12
<1>14. /\ h \in Handlers /\ h.ports = st.handler.ports
       /\ h.buffers = st.handler.buffers
       /\ h.first = (st.handler.first /\ ~change)
  <2> HIDE DEF change
  <2> QED
    BY <1>3, <1>9 DEF Handlers
<1> HIDE DEF q, h
<1>15. fails \in BOOLEAN
  OBVIOUS
<1> HIDE DEF fails, data
<1>16. /\ next \in Blocks /\ next.contexts = st.contexts
       /\ next.error = st.error /\ next.skipped = st.skipped
       /\ next.handler = h /\ next.queue = q
  BY <1>1, <1>13, <1>14, <1>15 DEF Blocks
<1>17. FreshBy(h, q, plugged)
  <2>1. CASE change
    BY <2>1, <1>14 DEF FreshBy
  <2>2. CASE ~change /\ data
    BY <2>2, <1>8, <1>14 DEF FreshBy
  <2>3. CASE ~change /\ ~data
    <3>1. \A p \in Indexes : q[p] = st.queue[p]
      BY <2>3, <1>11
    <3>2. \A p \in Range(h.ports) : p # NoPort => p \in Indexes
      BY <1>4, <1>14 DEF ports
    <3> QED
      BY <3>1, <3>2, <1>14 DEF FreshBy
  <2> QED
    BY <2>1, <2>2, <2>3
<1>18. ASSUME ~again, NEW p \in Indexes,
              UnreadBy(p, st.handler, st.queue, plugged)
       PROVE  UnreadBy(p, h, q, plugged)
  <2> DEFINE old == Cardinality(Events(st.queue[p]))
             new == Cardinality(Events(q[p]))
  <2>1. old \in Nat /\ new \in Nat
    BY <1>2, <1>12, HowMany
  <2>2. plugged[p] # NoSignal /\ old > 0
        /\ (p \in ports /\ st.handler.first => old > 1)
    BY <1>18, <2>1 DEF UnreadBy, Events, ports
  <2>3. SUFFICES new > 0 /\ (p \in ports /\ h.first => new > 1)
    BY <2>2, <2>1, <1>14 DEF UnreadBy, Events, ports
  <2>4. CASE change /\ p \in at("event")
    <3>1. st.handler.first /\ p \in ports
      BY <1>18, <2>4 DEF at
    <3>2. q[p] = Tail(st.queue[p]) /\ st.queue[p] # <<>>
      BY <1>6, <1>11, <2>4
    <3> QED
      BY <3>1, <3>2, <2>2, <2>4, <1>2, <1>14, LessEvents
  <2>5. CASE ~change /\ data /\ p \in ports
    <3>1. q[p] = Tail(st.queue[p]) /\ st.queue[p] # <<>>
          /\ Head(st.queue[p]) = "data" /\ ~st.handler.first
      BY <1>8, <1>11, <2>5
    <3> QED
      BY <3>1, <2>2, <1>2, <1>14, LessEvents
  <2>6. CASE ~ (\/ change /\ p \in at("event")
                \/ ~change /\ data /\ p \in ports)
    <3>1. q[p] = st.queue[p]
      BY <1>11, <2>6
    <3> QED
      BY <3>1, <2>2, <1>14
  <2> QED
    BY <2>4, <2>5, <2>6
<1> HIDE DEF again, next
<1> QED
  BY <1>1, <1>14, <1>16, <1>17, <1>18 DEF Processes, next

-----------------------------------------------------------------------------
(* The inductive invariant, and what the helpers of the steps do. *)

\* The parts of the inductive invariant. Ports: indexes ascend and no signal is
\* without a port, even while callbacks are still to come.
Ports == AscendingIn(signalContexts) /\ CoveredBy(signalContexts, plugged)

\* The preview a port with a signal is to have.
ExpectedBy(set) == IF ~set.preview THEN "none"
                   ELSE IF set.single THEN "common" ELSE "own"

\* A preview lags behind only where a callback is still to come.
PreviewBy(c, plug, set, lag) ==
  IF plug[c.index] # NoSignal
  THEN c.preview = ExpectedBy(set) \/ (c.preview = "none" /\ c.index \in lag)
  ELSE c.preview = "none" \/ c.index \in lag

\* The previews are those of the ports, and those of the ports are right except
\* where a callback will come.
Previews ==
  /\ commonPreviewSignal = (config.preview /\ config.single)
  /\ ownPreviews = Owners(Elements(signalContexts))
  /\ \A i \in 1..Len(signalContexts) :
       PreviewBy(signalContexts[i], plugged, config, DuePorts)

\* No signal is on two ports.
Once(plug) ==
  \A p, q \in Indexes : plug[p] = plug[q] /\ plug[p] # NoSignal => p = q

\* CallbacksMatchMap, and where no signal was on two ports none is now.
Callbacks == CallbacksMatchMap /\ (~twice => Once(plugged))

\* With no callback to come the block knows its ports. The topics are theirs
\* unless an exception came before them.
Knows ==
  ~failed /\ DuePorts = {} =>
    /\ ShapedBy(signalContexts, plugged)
    /\ ~config.single /\ "topics" \notin stale =>
         topics = SignalsBy(signalContexts, plugged)
    /\ stage = "live" => signalMap = Range(SignalsBy(signalContexts, plugged))

\* A new reader finds its descriptor packets first; handlers for one signal have
\* no reader; nothing is plugged in or out after the block was removed.
Queues ==
  /\ FreshBy(handler, queue, plugged)
  /\ ~config.single => handler.ports = <<>>
  /\ stage # "live" => DuePorts = {}

\* ReaderMatchesPorts, with Reads for what it says of the reader.
Readers ==
  /\ Settled /\ config.single /\ ~hasSignalError /\ Len(signalContexts) > 1
  /\ "validation" \notin stale
  => Reads(handler, signalContexts)

\* All but NoChangeLost, which needs all of this.
BlockInv == TypeOK /\ Ports /\ Previews /\ Callbacks /\ Knows /\ Queues
            /\ Readers

\* The state of the block has the types of a record that is handed on.
LEMMA NowIsBlock ==
  ASSUME TypeOK
  PROVE  Now \in Blocks
  BY ContextsAre DEF TypeOK, Now, Blocks, Handlers, Packets

\* A step that ends with such a record keeps the types.
LEMMA BecomesBlock ==
  ASSUME NEW st, st \in Blocks, Become(st)
  PROVE  /\ signalContexts' \in Contexts /\ signalContexts' # <<>>
         /\ hasSignalError' \in BOOLEAN /\ hasSkippedMsg' \in BOOLEAN
         /\ handler' \in [ports : Seq(Indexes \cup {NoPort}), buffers : Nat,
                          first : BOOLEAN]
         /\ queue' \in [Indexes -> Seq({"event", "data"})]
         /\ failed' \in BOOLEAN
  BY ContextsAre DEF Become, Blocks, Handlers, Packets

\* updatePortsAndSignals touches the previews alone.
LEMMA WithPreviewsAre ==
  ASSUME NEW c, c \in Seq(Context), NEW set
  PROVE  /\ WithPreviews(c, set) \in Seq(Context)
         /\ Len(WithPreviews(c, set)) = Len(c)
         /\ \A i \in 1..Len(c) :
              /\ WithPreviews(c, set)[i].index = c[i].index
              /\ WithPreviews(c, set)[i].preview = PreviewFor(c[i], set)
<1> DEFINE w == WithPreviews(c, set)
<1>1. /\ DOMAIN c = 1..Len(c) /\ Len(c) \in Nat
      /\ \A i \in 1..Len(c) : c[i] \in Context
  OBVIOUS
<1>2. w = [i \in 1..Len(c) |-> [c[i] EXCEPT !.preview = PreviewFor(c[i], set)]]
  BY <1>1 DEF WithPreviews
<1>3. ASSUME NEW i \in 1..Len(c)
      PROVE  PreviewFor(c[i], set) \in {"none", "own", "common"}
  <2>1. c[i].preview \in {"none", "own", "common"}
    BY <1>1 DEF Context
  <2> QED
    BY <2>1 DEF PreviewFor
<1> HIDE DEF w
<1>4. ASSUME NEW i \in 1..Len(c)
      PROVE  /\ w[i] \in Context /\ w[i].index = c[i].index
             /\ w[i].preview = PreviewFor(c[i], set)
  <2>1. w[i] = [c[i] EXCEPT !.preview = PreviewFor(c[i], set)]
    BY <1>2
  <2> QED
    BY <1>1, <1>3, <2>1 DEF Context
<1>5. w \in Seq(Context) /\ Len(w) = Len(c)
  <2>1. w \in [1..Len(c) -> Context]
    BY <1>2, <1>4
  <2> QED
    BY <1>1, <2>1
<1> QED
  BY <1>4, <1>5 DEF w

\* What depends on the ports alone.
LEMMA SamePorts ==
  ASSUME NEW c, c \in Seq(Context), c # <<>>,
         NEW w, w \in Seq(Context), Len(w) = Len(c),
         \A i \in 1..Len(c) : w[i].index = c[i].index,
         NEW plug
  PROVE  /\ w # <<>>
         /\ AscendingIn(c) => AscendingIn(w)
         /\ CoveredBy(c, plug) => CoveredBy(w, plug)
         /\ ShapedBy(c, plug) =>
              ShapedBy(w, plug) /\ SignalsBy(w, plug) = SignalsBy(c, plug)
<1>1. w # <<>>
  OBVIOUS
<1>2. AscendingIn(c) => AscendingIn(w)
  BY DEF AscendingIn
<1>3. CoveredBy(c, plug) => CoveredBy(w, plug)
  BY DEF CoveredBy
<1>4. ShapedBy(c, plug) => ShapedBy(w, plug)
  BY DEF ShapedBy
<1>5. ASSUME ShapedBy(c, plug)
      PROVE  SignalsBy(w, plug) = SignalsBy(c, plug)
  <2>1. /\ SignalsBy(w, plug) = [i \in 1..Len(w) - 1 |-> plug[w[i].index]]
        /\ SignalsBy(c, plug) = [i \in 1..Len(c) - 1 |-> plug[c[i].index]]
    BY <1>1, <1>4, <1>5, ShapedSignals
  <2>2. \A i \in 1..Len(c) - 1 : plug[w[i].index] = plug[c[i].index]
    OBVIOUS
  <2> QED
    BY <2>1, <2>2
<1> QED
  BY <1>1, <1>2, <1>3, <1>4, <1>5

\* Forget drops ports from a reader and adds none.
LEMMA Forgets ==
  ASSUME NEW h, h \in Handlers, NEW q, FreshBy(h, q, plugged)
  PROVE  /\ Forget(h) \in Handlers /\ FreshBy(Forget(h), q, plugged)
         /\ h.ports = <<>> => Forget(h).ports = <<>>
<1> DEFINE ports == [i \in DOMAIN h.ports |->
             IF h.ports[i] # NoPort /\ plugged[h.ports[i]] = NoSignal
             THEN NoPort ELSE h.ports[i]]
<1>1. h.ports \in Seq(Indexes \cup {NoPort})
  BY DEF Handlers
<1>2. ports \in Seq(Indexes \cup {NoPort})
  BY <1>1
<1>3. \A p \in Range(ports) : p # NoPort => p \in Range(h.ports)
  BY DEF Range
<1>4. h.ports = <<>> => ports = <<>>
  OBVIOUS
<1>5. Forget(h) = [h EXCEPT !.ports = ports]
  BY DEF Forget, Handlers
<1> HIDE DEF ports
<1>6. /\ Forget(h) \in Handlers /\ Forget(h).ports = ports
      /\ Forget(h).first = h.first
  BY <1>2, <1>5 DEF Handlers
<1> QED
  BY <1>3, <1>4, <1>6 DEF FreshBy

\* The signals that the block knows of are on its ports.
LEMMA SignalsAre ==
  ASSUME TypeOK, NEW c, c \in Seq(Context), AscendingIn(c)
  PROVE  /\ Len(SignalsBy(c, plugged)) \in Nat
         /\ DOMAIN SignalsBy(c, plugged) = 1..Len(SignalsBy(c, plugged))
         /\ \A i \in DOMAIN SignalsBy(c, plugged) :
              SignalsBy(c, plugged)[i] \in Signals
         /\ Once(plugged) => \A i, j \in DOMAIN SignalsBy(c, plugged) :
              SignalsBy(c, plugged)[i] = SignalsBy(c, plugged)[j] => i = j
<1> DEFINE kept == KeptBy(c, plugged)
           s == SignalsBy(c, plugged)
<1>1. kept \in Seq(Context)
  BY KeptOrder
<1>2. PICK g : Chosen(g, kept, Len(c), c, plugged)
  BY KeptOrder
<1>3. s = [i \in 1..Len(kept) |-> plugged[kept[i].index]]
  BY <1>1 DEF SignalsBy
<1>4. Len(kept) \in Nat /\ \A i \in 1..Len(kept) : kept[i] \in Context
  BY <1>1
<1> HIDE DEF kept, s
<1>5. /\ \A i \in 1..Len(kept) : g[i] \in 1..Len(c) /\ kept[i] = c[g[i]]
           /\ plugged[kept[i].index] # NoSignal
      /\ \A i, j \in 1..Len(kept) : i < j => g[i] < g[j]
  BY <1>2 DEF Chosen
<1>6. \A i \in 1..Len(kept) : kept[i].index \in Indexes
  BY <1>4 DEF Context
<1>7. \A i, j \in 1..Len(kept) : i < j => kept[i].index < kept[j].index
  BY <1>5 DEF AscendingIn
<1>8. \A i \in 1..Len(kept) : s[i] \in Signals
  BY <1>3, <1>5, <1>6 DEF TypeOK
<1>9. ASSUME Once(plugged), NEW i \in 1..Len(kept), NEW j \in 1..Len(kept),
             s[i] = s[j]
      PROVE  i = j
  <2>1. kept[i].index = kept[j].index
    BY <1>3, <1>5, <1>6, <1>9 DEF Once
  <2>2. i < j \/ j < i \/ i = j
    BY <1>4
  <2>3. kept[i].index \in Int /\ kept[j].index \in Int
    BY <1>6 DEF Indexes
  <2> QED
    BY <1>7, <2>1, <2>2, <2>3
<1>10. DOMAIN s = 1..Len(kept) /\ Len(s) = Len(kept)
  BY <1>3, <1>4
<1> QED
  BY <1>4, <1>8, <1>9, <1>10 DEF s

\* updateCoreEventCallbacks: signalMap is the set of the connected signals, each
\* of which has a callback, and one only if no signal is on two ports.
LEMMA CallbacksUpdated ==
  ASSUME TypeOK, Callbacks, NEW c, c \in Seq(Context), AscendingIn(c),
         UpdateCoreEventCallbacks(c)
  PROVE  /\ signalMap' = Range(SignalsBy(c, plugged))
         /\ signalMap' \subseteq Signals /\ registered' \in [Signals -> Nat]
         /\ \A x \in Signals : x \in signalMap' => registered'[x] > 0
         /\ ~twice => \A x \in Signals :
              registered'[x] = IF x \in signalMap' THEN 1 ELSE 0
<1> DEFINE s == SignalsBy(c, plugged)
           at(x) == {i \in DOMAIN s : s[i] = x}
           on(x) == Cardinality(at(x))
<1>1. /\ Len(s) \in Nat /\ DOMAIN s = 1..Len(s)
      /\ \A i \in DOMAIN s : s[i] \in Signals
      /\ Once(plugged) => \A i, j \in DOMAIN s : s[i] = s[j] => i = j
  BY SignalsAre
<1>2. /\ signalMap' = Range(s)
      /\ registered' = [x \in Signals |->
           registered[x] + on(x) - (IF x \in signalMap THEN 1 ELSE 0)]
  BY SignalsNow DEF UpdateCoreEventCallbacks
<1> HIDE DEF s
<1>3. Range(s) \subseteq Signals
  BY <1>1 DEF Range
<1>4. \A x : IsFiniteSet(at(x)) /\ on(x) \in Nat
             /\ (on(x) = 0 <=> at(x) = {})
  <2>1. IsFiniteSet(DOMAIN s)
    BY <1>1, FS_Interval
  <2>2. ASSUME NEW x PROVE IsFiniteSet(at(x)) /\ on(x) \in Nat
                           /\ (on(x) = 0 <=> at(x) = {})
    <3>1. at(x) \in SUBSET (DOMAIN s)
      OBVIOUS
    <3> HIDE DEF at
    <3>2. IsFiniteSet(at(x))
      BY <2>1, <3>1, FS_Subset
    <3> QED
      BY <3>2, FS_CardinalityType, FS_EmptySet
  <2> QED
    BY <2>2
<1>5. \A x : x \in Range(s) <=> at(x) # {}
  BY DEF Range
<1>6. ASSUME ~twice, NEW x
      PROVE  on(x) = IF x \in Range(s) THEN 1 ELSE 0
  <2>1. Once(plugged)
    BY <1>6 DEF Callbacks
  <2>2. CASE x \in Range(s)
    <3>1. PICK i \in at(x) : TRUE
      BY <1>5, <2>2
    <3>2. at(x) = {i}
      BY <1>1, <2>1, <3>1
    <3> HIDE DEF at
    <3> QED
      BY <2>2, <3>2, FS_Singleton
  <2>3. CASE x \notin Range(s)
    BY <1>4, <1>5, <2>3
  <2> QED
    BY <2>2, <2>3
<1> HIDE DEF on, at
<1>7. ASSUME NEW x \in Signals
      PROVE  /\ registered'[x] \in Nat
             /\ x \in signalMap' => registered'[x] > 0
             /\ ~twice => registered'[x] = IF x \in signalMap' THEN 1 ELSE 0
  <2>1. registered[x] \in Nat /\ (x \in signalMap => registered[x] > 0)
        /\ (~twice => registered[x] = IF x \in signalMap THEN 1 ELSE 0)
    BY DEF TypeOK, Callbacks, CallbacksMatchMap
  <2>2. registered'[x] = registered[x] + on(x) - (IF x \in signalMap THEN 1 ELSE 0)
    BY <1>2
  <2>3. on(x) \in Nat /\ (x \in signalMap' => on(x) # 0)
    BY <1>2, <1>4, <1>5
  <2>4. ~twice => on(x) = IF x \in signalMap' THEN 1 ELSE 0
    BY <1>2, <1>6
  <2> QED
    BY <2>1, <2>2, <2>3, <2>4
<1>8. registered' = [x \in Signals |-> registered'[x]]
  BY <1>2
<1> QED
  BY <1>2, <1>3, <1>7, <1>8 DEF s

\* The ports c that updatePortsAndSignals gets come from the ports old, those that
\* are gone apart.
HandsOver(old, gone, c, set) ==
  /\ old \in Seq(Context) /\ c \in Seq(Context) /\ AscendingIn(c)
  /\ \A j \in 1..Len(c) : c[j].preview = "own" =>
       \E i \in 1..Len(old) : old[i] = c[j]
  /\ \A i \in 1..Len(old) : old[i].preview = "own" =>
       old[i] \in gone \/ \E j \in 1..Len(c) : c[j] = old[i]
  /\ \A x \in gone : \A j \in 1..Len(c) :
       WithPreviews(c, set)[j].preview = "own" => c[j].index # x.index

\* updatePortsAndSignals: ownPreviews stays the set of the ports that hold one.
LEMMA PreviewsUpdated ==
  ASSUME NEW old, NEW gone, NEW c, NEW set, HandsOver(old, gone, c, set),
         ownPreviews = Owners(Elements(old)),
         UpdatePortsAndSignals(gone, c, set)
  PROVE  ownPreviews' = Owners(Elements(WithPreviews(c, set)))
<1> DEFINE w == WithPreviews(c, set)
           changed == {i \in DOMAIN c : w[i] # c[i]}
           was == Owners({c[i] : i \in changed})
           is == Owners({w[i] : i \in changed})
           new == Owners(Elements(w))
<1> USE DEF HandsOver
<1>1. /\ Len(w) = Len(c) /\ DOMAIN w = 1..Len(c) /\ DOMAIN c = 1..Len(c)
      /\ \A i \in 1..Len(c) : w[i].index = c[i].index
  BY WithPreviewsAre
<1>2. ownPreviews' = ((ownPreviews \ Owners(gone)) \ was) \cup is
  BY DEF UpdatePortsAndSignals
<1>3. /\ \A p : p \in new <=>
           \E j \in 1..Len(c) : w[j].preview = "own" /\ w[j].index = p
      /\ \A p : p \in is <=>
           \E j \in changed : w[j].preview = "own" /\ w[j].index = p
      /\ \A p : p \in was <=>
           \E j \in changed : c[j].preview = "own" /\ c[j].index = p
      /\ \A p : p \in ownPreviews <=>
           \E i \in 1..Len(old) : old[i].preview = "own" /\ old[i].index = p
      /\ \A p : p \in Owners(gone) <=>
           \E x \in gone : x.preview = "own" /\ x.index = p
  BY <1>1 DEF Owners, Elements
<1>4. changed = {i \in 1..Len(c) : w[i] # c[i]}
  BY <1>1
<1>5. \A i, j \in 1..Len(c) : c[i].index = c[j].index => i = j
  <2>1. \A i \in 1..Len(c) : c[i].index \in Int
    <3>1. \A i \in 1..Len(c) : c[i] \in Context
      OBVIOUS
    <3> QED
      BY <3>1 DEF Context, Indexes
  <2>2. \A i, j \in 1..Len(c) : i < j => c[i].index < c[j].index
    BY DEF AscendingIn
  <2>3. Len(c) \in Nat
    OBVIOUS
  <2>4. ASSUME NEW i \in 1..Len(c), NEW j \in 1..Len(c), c[i].index = c[j].index
        PROVE  i = j
    <3>1. i < j \/ j < i \/ i = j
      BY <2>3
    <3> QED
      BY <2>1, <2>2, <2>4, <3>1
  <2> QED
    BY <2>4
<1>6. \A x \in gone : \A j \in 1..Len(c) :
        w[j].preview = "own" => c[j].index # x.index
  OBVIOUS
<1> HIDE DEF w, changed, was, is, new
<1>7. ASSUME NEW p, p \in ownPreviews, p \notin Owners(gone), p \notin was
      PROVE  p \in new
  <2>1. PICK i \in 1..Len(old) : old[i].preview = "own" /\ old[i].index = p
    BY <1>3, <1>7
  <2>2. old[i] \notin gone
    BY <1>3, <1>7, <2>1
  <2>3. PICK j \in 1..Len(c) : c[j] = old[i]
    BY <2>1, <2>2
  <2>4. j \notin changed
    BY <1>3, <1>7, <2>1, <2>3
  <2>5. w[j] = c[j]
    BY <1>4, <2>4
  <2> QED
    BY <1>3, <2>1, <2>3, <2>5
<1>8. is \subseteq new
  BY <1>3, <1>4
<1>9. ASSUME NEW p, p \in new, p \notin is
      PROVE  p \in ownPreviews /\ p \notin Owners(gone) /\ p \notin was
  <2>1. PICK j \in 1..Len(c) : w[j].preview = "own" /\ w[j].index = p
    BY <1>3, <1>9
  <2>2. j \notin changed /\ w[j] = c[j]
    BY <1>3, <1>4, <1>9, <2>1
  <2>3. PICK i \in 1..Len(old) : old[i] = c[j]
    BY <2>1, <2>2
  <2>4. p \in ownPreviews
    BY <1>3, <2>1, <2>2, <2>3
  <2>5. p \notin Owners(gone)
    BY <1>1, <1>3, <1>6, <2>1
  <2>6. ASSUME p \in was PROVE FALSE
    <3>1. PICK k \in changed : c[k].preview = "own" /\ c[k].index = p
      BY <1>3, <2>6
    <3>2. k \in 1..Len(c) /\ c[k].index = c[j].index
      BY <1>1, <1>4, <2>1, <3>1
    <3> QED
      BY <1>5, <2>2, <3>1, <3>2
  <2> QED
    BY <2>4, <2>5, <2>6
<1> QED
  BY <1>2, <1>7, <1>8, <1>9 DEF new, w

\* The preview that the loop of updatePortsAndSignals leaves.
LEMMA PreviewAfter ==
  ASSUME BlockInv, NEW x, NEW lag, PreviewBy(x, plugged, config, lag), NEW set
  PROVE  plugged[x.index] # NoSignal => PreviewFor(x, set) = ExpectedBy(set)
  BY DEF BlockInv, Previews, PreviewBy, PreviewFor, ExpectedBy, Connected

\* A step that ends with a block of which validation has the last word, unless an
\* exception leaves it.
LEMMA ValidatedStep ==
  ASSUME BlockInv, NEW w, w \in Seq(Context), w # <<>>, NEW h, h \in Handlers,
         NEW set, set \in Settings,
         FreshBy(h, queue, plugged), ~set.single => h.ports = <<>>,
         NEW st, st = ValidateInputPorts(
                        [Now EXCEPT !.contexts = w, !.handler = h], set),
         Become(st)
  PROVE  /\ st \in Blocks /\ FreshBy(handler', queue', plugged)
         /\ ~set.single => handler'.ports = <<>>
         /\ signalContexts' = w /\ failed' = failed
         /\ ShapedBy(w, plugged) /\ ~Throws(w, set) =>
              /\ hasSignalError' = ~Accepts(w, set)
              /\ set.single /\ ~hasSignalError' /\ Len(w) > 1 =>
                   Reads(handler', w)
<1> DEFINE before == [Now EXCEPT !.contexts = w, !.handler = h]
<1>1. Now \in Blocks
  BY NowIsBlock DEF BlockInv
<1>2. /\ before \in Blocks /\ before.contexts = w /\ before.handler = h
      /\ before.queue = queue /\ before.failed = failed
  BY <1>1 DEF Blocks, Now
<1> HIDE DEF before
<1>3. Validates(st, before, set)
  <2>1. FreshBy(before.handler, before.queue, plugged)
    BY <1>2
  <2>2. st = ValidateInputPorts(before, set)
    BY DEF before
  <2> QED
    BY <1>2, <2>1, <2>2, Validated
<1> QED
  BY <1>2, <1>3 DEF Validates, Become

\* What a callback or a property change concludes with.
LEMMA Concluded ==
  ASSUME NEW c, NEW st, NEW set, Conclude(c, st, set), stale \subseteq Unfinished
  PROVE  /\ stale' \subseteq Unfinished
         /\ Throws(c, set) => "validation" \in stale' /\ "topics" \in stale'
         /\ ~Throws(c, set) => topics' = TopicsOf(c, set)
  BY DEF Conclude, Unfinished

-----------------------------------------------------------------------------
(* The steps of the block. *)

\* What clearPorts leaves in this state.
LEMMA ClearedNow ==
  ASSUME BlockInv
  PROVE  IsCleared(ClearPorts(signalContexts), signalContexts, plugged)
<1>1. ClearPorts(signalContexts) = ClearedBy(signalContexts, plugged)
  BY KeptNow DEF ClearPorts, ClearedBy
<1>2. /\ signalContexts \in Seq(Context) /\ AscendingIn(signalContexts)
      /\ CoveredBy(signalContexts, plugged)
  BY ContextsAre DEF BlockInv, TypeOK, Ports
<1> QED
  BY <1>1, <1>2, Cleared

\* onConnected and onDisconnected keep the invariant, and validation has the last
\* word or is left by an exception.
LEMMA PortsChangedKeeps ==
  ASSUME BlockInv, NEW p \in Indexes,
         NEW callback \in {<<"connected", p>>, <<"disconnected", p>>},
         PortsChanged(callback)
  PROVE  /\ BlockInv'
         /\ "validation" \notin stale' =>
              hasSignalError' = ~Accepts(signalContexts', config)
<1> DEFINE d == ClearPorts(signalContexts)
           w == WithPreviews(d, config)
           h == Forget(handler)
           st == ValidateInputPorts(
                   [Now EXCEPT !.contexts = w, !.handler = h], config)
           gone == {c \in Elements(signalContexts) : ~Connected(c)}
           n == Len(d)
<1>0. /\ ~failed /\ callback \in due /\ due' = due \ {callback}
      /\ UpdatePortsAndSignals(gone, d, config) /\ Become(st)
      /\ Conclude(w, st, config)
      /\ UNCHANGED <<plugged, descriptor, name, config, stage, twice>>
      /\ UNCHANGED <<signalDescriptorChanged, signalAttributeChanged>>
  BY DEF PortsChanged, sdkVars, flagVars
<1>1. /\ d \in Seq(Context) /\ d # <<>>
      /\ AscendingIn(d) /\ ShapedBy(d, plugged) /\ CoveredBy(d, plugged)
      /\ d[n].preview = "none"
      /\ \A j \in 1..n - 1 : \E i \in 1..Len(signalContexts) :
              d[j] = signalContexts[i]
              /\ plugged[signalContexts[i].index] # NoSignal
      /\ \A i \in 1..Len(signalContexts) :
              plugged[signalContexts[i].index] # NoSignal =>
                \E j \in 1..n - 1 : d[j] = signalContexts[i]
  BY ClearedNow DEF IsCleared
<1>2. signalContexts \in Seq(Context)
  BY ContextsAre DEF BlockInv, TypeOK
<1>3. gone = {signalContexts[i] : i \in {k \in 1..Len(signalContexts) :
                plugged[signalContexts[k].index] = NoSignal}}
  BY <1>2 DEF Elements, Connected
<1> HIDE DEF d, gone
<1>4. /\ w \in Seq(Context) /\ Len(w) = n
      /\ \A i \in 1..n : /\ w[i].index = d[i].index
                         /\ w[i].preview = PreviewFor(d[i], config)
  BY <1>1, WithPreviewsAre
<1>5. n \in Nat /\ n > 0 /\ \A i \in 1..n : i = n \/ i \in 1..n - 1
  BY <1>1
<1>6. handler \in Handlers /\ h \in Handlers /\ FreshBy(h, queue, plugged)
      /\ (~config.single => h.ports = <<>>)
  BY Forgets DEF BlockInv, TypeOK, Handlers, Queues
<1>7. config \in Settings
  BY DEF BlockInv, TypeOK
<1> HIDE DEF h, w
<1>8. /\ w # <<>> /\ AscendingIn(w) /\ CoveredBy(w, plugged)
      /\ ShapedBy(w, plugged)
      /\ SignalsBy(w, plugged) = SignalsBy(d, plugged)
  BY <1>1, <1>4, SamePorts
<1>9. /\ st \in Blocks /\ FreshBy(handler', queue', plugged)
      /\ ~config.single => handler'.ports = <<>>
      /\ signalContexts' = w /\ failed' = failed
      /\ ~Throws(w, config) =>
           /\ hasSignalError' = ~Accepts(w, config)
           /\ config.single /\ ~hasSignalError' /\ Len(w) > 1 =>
                Reads(handler', w)
  BY <1>0, <1>4, <1>6, <1>7, <1>8, ValidatedStep
<1>9a. /\ stale' \subseteq Unfinished
       /\ Throws(w, config) => "validation" \in stale' /\ "topics" \in stale'
       /\ ~Throws(w, config) => topics' = TopicsOf(w, config)
  <2>1. stale \subseteq Unfinished
    BY DEF BlockInv, TypeOK
  <2>2. Conclude(w, st, config)
    BY <1>0
  <2> HIDE DEF st
  <2> QED
    BY <2>1, <2>2, Concluded
<1> HIDE DEF st
<1>10. Callbacks /\ TypeOK
  BY DEF BlockInv
<1>11. /\ signalMap' = Range(SignalsBy(d, plugged))
       /\ signalMap' \subseteq Signals /\ registered' \in [Signals -> Nat]
       /\ \A x \in Signals : x \in signalMap' => registered'[x] > 0
       /\ ~twice => \A x \in Signals :
              registered'[x] = IF x \in signalMap' THEN 1 ELSE 0
  BY <1>0, <1>1, <1>10, CallbacksUpdated DEF UpdatePortsAndSignals
<1>12. stage = "live"
  <2>1. p \in DuePorts
    BY <1>0 DEF DuePorts
  <2> QED
    BY <2>1 DEF BlockInv, Queues
<1>13. /\ commonPreviewSignal' = (config.preview /\ config.single)
       /\ ownPreviews' = Owners(Elements(w))
  <2>1. ownPreviews = Owners(Elements(signalContexts))
    BY DEF BlockInv, Previews
  <2>2. \A j \in 1..n : d[j].preview = "own" =>
          \E i \in 1..Len(signalContexts) : signalContexts[i] = d[j]
    BY <1>1, <1>5
  <2>3. ASSUME NEW i \in 1..Len(signalContexts)
        PROVE  \/ signalContexts[i] \in gone
               \/ \E j \in 1..n : d[j] = signalContexts[i]
    <3>1. CASE plugged[signalContexts[i].index] = NoSignal
      BY <1>3, <3>1
    <3>2. CASE plugged[signalContexts[i].index] # NoSignal
      <4>1. PICK j \in 1..n - 1 : d[j] = signalContexts[i]
        BY <1>1, <3>2
      <4>2. j \in 1..n
        BY <1>5
      <4> QED
        BY <4>1, <4>2
    <3> QED
      BY <3>1, <3>2
  <2>4. ASSUME NEW x \in gone, NEW j \in 1..n, w[j].preview = "own"
        PROVE  d[j].index # x.index
    <3>1. j \in 1..n - 1
      <4>2. n \in 1..Len(d) /\ ~ (n < Len(d))
        BY <1>5
      <4>3. plugged[d[n].index] = NoSignal
        BY <1>1, <4>2 DEF ShapedBy
      <4>1. PreviewFor(d[n], config) = "none"
        BY <1>1, <4>3 DEF PreviewFor, Connected
      <4> QED
        BY <4>1, <1>4, <1>5, <2>4
    <3>2. plugged[d[j].index] # NoSignal
      BY <3>1, <1>1
    <3>3. plugged[x.index] = NoSignal
      BY <1>3
    <3> QED
      BY <3>2, <3>3
  <2>5. \A x \in gone : \A j \in 1..Len(d) :
           WithPreviews(d, config)[j].preview = "own" => d[j].index # x.index
    BY <2>4 DEF w
  <2>7. HandsOver(signalContexts, gone, d, config)
    BY <1>1, <1>2, <2>2, <2>3, <2>5 DEF HandsOver
  <2>6. ownPreviews' = Owners(Elements(WithPreviews(d, config)))
    BY <1>0, <2>1, <2>7, PreviewsUpdated
  <2> QED
    BY <2>6, <1>0 DEF UpdatePortsAndSignals, w
<1>14. \A lag : \A i \in 1..n : PreviewBy(w[i], plugged, config, lag)
  <2>1. \A i \in 1..n - 1 : plugged[d[i].index] # NoSignal
    BY <1>1
  <2>2. plugged[d[n].index] = NoSignal
    BY <1>1, <1>5 DEF ShapedBy
  <2>3. ASSUME NEW i \in 1..n - 1
        PROVE  PreviewFor(d[i], config) = ExpectedBy(config)
    <3>1. PICK k \in 1..Len(signalContexts) : d[i] = signalContexts[k]
      BY <1>1
    <3>2. PreviewBy(d[i], plugged, config, DuePorts)
      BY <3>1 DEF BlockInv, Previews
    <3> QED
      BY <2>1, <3>2, PreviewAfter
  <2>4. PreviewFor(d[n], config) = "none"
    BY <1>1, <2>2 DEF PreviewFor, Connected
  <2> QED
    BY <1>4, <1>5, <2>1, <2>2, <2>3, <2>4 DEF PreviewBy
<1>15. TypeOK'
  <2>1. /\ signalContexts' \in Contexts /\ signalContexts' # <<>>
        /\ hasSignalError' \in BOOLEAN /\ hasSkippedMsg' \in BOOLEAN
        /\ handler' \in [ports : Seq(Indexes \cup {NoPort}), buffers : Nat,
                          first : BOOLEAN]
        /\ queue' \in [Indexes -> Seq({"event", "data"})]
        /\ failed' \in BOOLEAN
    BY <1>0, <1>9, BecomesBlock
  <2>2. ownPreviews' \subseteq Indexes
    <3>1. \A i \in 1..n : w[i].index \in Indexes
      <4>1. \A i \in 1..n : w[i] \in Context
        BY <1>4
      <4> QED
        BY <4>1 DEF Context
    <3>2. DOMAIN w = 1..n
      BY <1>4
    <3> QED
      BY <1>13, <3>1, <3>2 DEF Owners, Elements
  <2>3. commonPreviewSignal' \in BOOLEAN
    BY <1>13, <1>7, PublisherAssumption DEF SettingsType
  <2>4. due' \subseteq due
    BY <1>0
  <2> QED
    BY <1>0, <1>9a, <1>10, <1>11, <2>1, <2>2, <2>3, <2>4 DEF TypeOK
<1>16. Ports'
  BY <1>0, <1>8, <1>9 DEF Ports
<1>17. Previews'
  <2>1. \A i \in 1..Len(signalContexts)' :
          PreviewBy(signalContexts'[i], plugged', config', DuePorts')
    BY <1>0, <1>4, <1>9, <1>14
  <2> QED
    BY <1>0, <1>9, <1>13, <2>1 DEF Previews
<1>18. Callbacks'
  BY <1>0, <1>10, <1>11, <1>12 DEF Callbacks, CallbacksMatchMap, TypeOK
<1>19. Knows'
  <2>1. ~config.single /\ "topics" \notin stale' =>
          topics' = SignalsBy(d, plugged)
    BY <1>8, <1>9a, SignalsNow DEF TopicsOf
  <2> QED
    BY <1>0, <1>8, <1>9, <1>11, <2>1 DEF Knows
<1>20. Queues'
  BY <1>0, <1>9, <1>12 DEF Queues
<1>21. Readers'
  BY <1>0, <1>9, <1>9a DEF Readers
<1> QED
  BY <1>9, <1>9a, <1>15, <1>16, <1>17, <1>18, <1>19, <1>20, <1>21 DEF BlockInv

\* A change of a property keeps the invariant, and validation has the last word
\* unless a callback is still to come or an exception leaves it.
LEMMA PropertyChangedKeeps ==
  ASSUME BlockInv, NEW set \in Settings, PropertyChanged(set)
  PROVE  /\ BlockInv'
         /\ DuePorts' = DuePorts
         /\ DuePorts = {} /\ "validation" \notin stale' =>
              hasSignalError' = ~Accepts(signalContexts', set)
<1> DEFINE d == signalContexts
           w == WithPreviews(d, set)
           st == ValidateInputPorts(
                   [Now EXCEPT !.contexts = w, !.handler = NoReader], set)
           n == Len(d)
<1>0. /\ Live /\ config' = set
      /\ UpdatePortsAndSignals({}, d, set) /\ Become(st)
      /\ Conclude(w, st, set)
      /\ UNCHANGED <<plugged, descriptor, name, due, stage, twice>>
      /\ UNCHANGED <<signalDescriptorChanged, signalAttributeChanged>>
  BY DEF PropertyChanged, flagVars
<1>1. /\ d \in Seq(Context) /\ d # <<>>
      /\ AscendingIn(d) /\ CoveredBy(d, plugged)
  BY ContextsAre DEF BlockInv, TypeOK, Ports
<1>2. DuePorts' = DuePorts
  BY <1>0 DEF DuePorts
<1>3. DuePorts = {} => ShapedBy(d, plugged)
  BY <1>0 DEF BlockInv, Knows, Live
<1>4. \A i \in 1..n : PreviewBy(d[i], plugged, config, DuePorts)
  BY DEF BlockInv, Previews
<1>5. ownPreviews = Owners(Elements(d))
  BY DEF BlockInv, Previews
<1>6. UpdatePortsAndSignals({}, d, set)
  BY <1>0
<1> HIDE DEF d
<1>7. /\ w \in Seq(Context) /\ Len(w) = n
      /\ \A i \in 1..n : /\ w[i].index = d[i].index
                         /\ w[i].preview = PreviewFor(d[i], set)
  BY <1>1, WithPreviewsAre
<1>8. n \in Nat /\ n > 0
  BY <1>1
<1>9. NoReader \in Handlers /\ FreshBy(NoReader, queue, plugged)
      /\ NoReader.ports = <<>>
  BY DEF NoReader, Handlers, FreshBy, Range
<1> HIDE DEF w
<1>10. /\ w # <<>> /\ AscendingIn(w) /\ CoveredBy(w, plugged)
       /\ ShapedBy(d, plugged) =>
            ShapedBy(w, plugged) /\ SignalsBy(w, plugged) = SignalsBy(d, plugged)
  BY <1>1, <1>7, SamePorts
<1>11. /\ st \in Blocks /\ FreshBy(handler', queue', plugged)
       /\ ~set.single => handler'.ports = <<>>
       /\ signalContexts' = w /\ failed' = failed
       /\ ShapedBy(w, plugged) /\ ~Throws(w, set) =>
            /\ hasSignalError' = ~Accepts(w, set)
            /\ set.single /\ ~hasSignalError' /\ Len(w) > 1 => Reads(handler', w)
  BY <1>0, <1>7, <1>9, <1>10, ValidatedStep
<1>11a. /\ stale' \subseteq Unfinished
        /\ Throws(w, set) => "validation" \in stale' /\ "topics" \in stale'
        /\ ~Throws(w, set) => topics' = TopicsOf(w, set)
  <2>1. stale \subseteq Unfinished
    BY DEF BlockInv, TypeOK
  <2>2. Conclude(w, st, set)
    BY <1>0
  <2> HIDE DEF st
  <2> QED
    BY <2>1, <2>2, Concluded
<1> HIDE DEF st
<1>12. Callbacks /\ TypeOK
  BY DEF BlockInv
<1>13. /\ signalMap' = Range(SignalsBy(d, plugged))
       /\ signalMap' \subseteq Signals /\ registered' \in [Signals -> Nat]
       /\ \A x \in Signals : x \in signalMap' => registered'[x] > 0
       /\ ~twice => \A x \in Signals :
              registered'[x] = IF x \in signalMap' THEN 1 ELSE 0
  BY <1>6, <1>1, <1>12, CallbacksUpdated DEF UpdatePortsAndSignals
<1>14. /\ commonPreviewSignal' = (set.preview /\ set.single)
       /\ ownPreviews' = Owners(Elements(w))
  <2>1. HandsOver(d, {}, d, set)
    BY <1>1 DEF HandsOver
  <2>2. ownPreviews' = Owners(Elements(WithPreviews(d, set)))
    BY <1>5, <1>6, <2>1, PreviewsUpdated
  <2> QED
    BY <2>2, <1>6 DEF UpdatePortsAndSignals, w
<1>15. \A i \in 1..n : PreviewBy(w[i], plugged, set, DuePorts)
  <2>1. ASSUME NEW i \in 1..n
        PROVE  PreviewBy(w[i], plugged, set, DuePorts)
    <3>1. PreviewBy(d[i], plugged, config, DuePorts)
      BY <1>4
    <3>2. CASE plugged[d[i].index] # NoSignal
      <4>1. PreviewFor(d[i], set) = ExpectedBy(set)
        BY <3>1, <3>2, PreviewAfter
      <4> QED
        BY <1>7, <3>2, <4>1 DEF PreviewBy
    <3>3. CASE plugged[d[i].index] = NoSignal
      <4>1. PreviewFor(d[i], set) = d[i].preview
        BY <3>3 DEF PreviewFor, Connected
      <4> QED
        BY <1>7, <3>1, <3>3, <4>1 DEF PreviewBy
    <3> QED
      BY <3>2, <3>3
  <2> QED
    BY <2>1
<1>16. TypeOK'
  <2>1. /\ signalContexts' \in Contexts /\ signalContexts' # <<>>
        /\ hasSignalError' \in BOOLEAN /\ hasSkippedMsg' \in BOOLEAN
        /\ handler' \in [ports : Seq(Indexes \cup {NoPort}), buffers : Nat,
                          first : BOOLEAN]
        /\ queue' \in [Indexes -> Seq({"event", "data"})]
        /\ failed' \in BOOLEAN
    BY <1>0, <1>11, BecomesBlock
  <2>2. ownPreviews' \subseteq Indexes
    <3>1. \A i \in 1..n : w[i].index \in Indexes
      <4>1. \A i \in 1..n : w[i] \in Context
        BY <1>7
      <4> QED
        BY <4>1 DEF Context
    <3>2. DOMAIN w = 1..n
      BY <1>7
    <3> QED
      BY <1>14, <3>1, <3>2 DEF Owners, Elements
  <2>3. commonPreviewSignal' \in BOOLEAN
    BY <1>14, PublisherAssumption DEF SettingsType
  <2> QED
    BY <1>0, <1>11a, <1>12, <1>13, <2>1, <2>2, <2>3 DEF TypeOK
<1>17. Ports'
  BY <1>0, <1>10, <1>11 DEF Ports
<1>18. Previews'
  <2>1. \A i \in 1..Len(signalContexts)' :
          PreviewBy(signalContexts'[i], plugged', config', DuePorts')
    BY <1>0, <1>2, <1>7, <1>11, <1>15
  <2> QED
    BY <1>0, <1>11, <1>14, <2>1 DEF Previews
<1>19. Callbacks'
  BY <1>0, <1>12, <1>13 DEF Callbacks, CallbacksMatchMap, TypeOK, Live
<1>20. Knows'
  <2>1. DuePorts = {} /\ ~set.single /\ "topics" \notin stale' =>
          topics' = SignalsBy(w, plugged)
    BY <1>11a, SignalsNow DEF TopicsOf
  <2> QED
    BY <1>0, <1>2, <1>3, <1>10, <1>11, <1>13, <2>1 DEF Knows
<1>21. Queues'
  BY <1>0, <1>11 DEF Queues, Live
<1>22. Readers'
  BY <1>0, <1>2, <1>3, <1>10, <1>11, <1>11a DEF Readers, Settled
<1>23. DuePorts = {} /\ "validation" \notin stale' =>
         hasSignalError' = ~Accepts(signalContexts', set)
  BY <1>3, <1>10, <1>11, <1>11a
<1> QED
  BY <1>2, <1>16, <1>17, <1>18, <1>19, <1>20, <1>21, <1>22, <1>23 DEF BlockInv

\* The records of a turn of the reader: after the flags, after processing, and
\* after the revalidation that processing asks for.
Reading(st1, got, st2, skip) ==
  LET flagged == \/ hasSignalError /\ signalDescriptorChanged
                 \/ signalAttributeChanged
      throws == Throws(signalContexts, config)
      validates == flagged \/ got.needRevalidation
  IN  /\ st1 = IF flagged THEN ValidateInputPorts(Now, config) ELSE Now
      /\ got = IF st1.error \/ hasSettingError(config) \/ (flagged /\ throws)
               THEN NothingRead(st1) ELSE Process(st1)
      /\ st2 = IF got.needRevalidation
               THEN ValidateInputPorts(got.st, config) ELSE got.st
      /\ Become([st2 EXCEPT !.skipped = @ \/ skip,
                            !.failed = @ \/ (validates /\ throws)])
      /\ stale' = IF validates THEN stale \ {"validation", "domain"} ELSE stale
      /\ signalDescriptorChanged' = (signalDescriptorChanged /\ ~flagged)
      /\ signalAttributeChanged' = (signalAttributeChanged /\ ~flagged)
      /\ UNCHANGED <<sdkVars, due, portVars, config, stage, twice>>

\* A turn of the reader has such records.
LEMMA ReaderReads ==
  ASSUME NEW skip, ReaderLoop(skip)
  PROVE  \E st1, got, st2 : Reading(st1, got, st2, skip)
  BY DEF ReaderLoop, Reading

\* What every block that a turn hands on has.
Sound(st) ==
  /\ st \in Blocks /\ FreshBy(st.handler, st.queue, plugged)
  /\ st.contexts = signalContexts
  /\ ~config.single => st.handler.ports = <<>>

\* The reader is that of the ports, where the block may process.
Fit(st) ==
  config.single /\ ~st.error /\ Len(signalContexts) > 1 =>
    Reads(st.handler, signalContexts)

\* The error is what validation says, and the reader fits.
Right(st) == st.error = ~Accepts(signalContexts, config) /\ Fit(st)

\* No packet that is a change went unseen from one block to the other.
Passes(old, new) ==
  /\ new.error = old.error
  /\ \A p \in Indexes : UnreadBy(p, old.handler, old.queue, plugged) =>
                          UnreadBy(p, new.handler, new.queue, plugged)

\* A turn begins with a sound block.
LEMMA SoundNow ==
  ASSUME BlockInv, ~failed, stage = "live"
  PROVE  /\ Sound(Now)
         /\ DuePorts = {} => ShapedBy(signalContexts, plugged)
         /\ DuePorts = {} /\ "validation" \notin stale => Fit(Now)
  BY NowIsBlock DEF BlockInv, Knows, Queues, Readers, Settled, Live, Sound, Fit,
                    Now

\* Validation keeps a block sound, and makes it right if no exception leaves it.
LEMMA SoundValidated ==
  ASSUME NEW st, Sound(st)
  PROVE  /\ Sound(ValidateInputPorts(st, config))
         /\ ShapedBy(signalContexts, plugged) /\ ~Throws(signalContexts, config)
              => Right(ValidateInputPorts(st, config))
<1> DEFINE v == ValidateInputPorts(st, config)
<1>1. Validates(v, st, config)
  BY Validated DEF Sound
<1> HIDE DEF v
<1> QED
  BY <1>1 DEF Sound, Right, Fit, Validates, v

\* Processing keeps a block sound and right; without asking for validation it
\* passes over no change.
LEMMA SoundProcessed ==
  ASSUME NEW st, Sound(st), CoveredBy(signalContexts, plugged)
  PROVE  /\ Sound(Process(st).st)
         /\ Fit(st) => Fit(Process(st).st)
         /\ Process(st).st.error = st.error
         /\ ~Process(st).needRevalidation => Passes(st, Process(st).st)
<1> DEFINE got == Process(st)
<1>1. Processes(got, st)
  BY ProcessedEach, ProcessedGroup DEF Process, Sound
<1> HIDE DEF got
<1>2. got.st.error = st.error
  BY <1>1 DEF Processes
<1>3. Reads(st.handler, signalContexts) => Reads(got.st.handler, signalContexts)
  BY <1>1 DEF Processes, Reads
<1> QED
  BY <1>1, <1>2, <1>3 DEF Processes, Sound, Fit, Passes, got

\* A turn of the reader keeps the invariant; unless it ends the program, it ends
\* with an error that is right, or has left the flags and every unread change as
\* they were.
LEMMA ReaderLoopKeeps ==
  ASSUME BlockInv, NEW skip \in BOOLEAN, ReaderLoop(skip)
  PROVE  /\ BlockInv'
         /\ signalContexts' = signalContexts
         /\ DuePorts = {} /\ ~failed' =>
              \/ hasSignalError' = ~Accepts(signalContexts, config)
              \/ /\ hasSignalError' = hasSignalError
                 /\ stale' = stale /\ UNCHANGED flagVars
                 /\ \A p \in Indexes : UnreadBy(p, handler, queue, plugged) =>
                                         UnreadBy(p, handler', queue', plugged)
<1> DEFINE flagged == \/ hasSignalError /\ signalDescriptorChanged
                      \/ signalAttributeChanged
           throws == Throws(signalContexts, config)
<1>0. ~failed /\ stage = "live"
  BY DEF ReaderLoop
<1>1. PICK st1, got, st2 : Reading(st1, got, st2, skip)
  BY ReaderReads
<1> DEFINE validates == flagged \/ got.needRevalidation
           st3 == [st2 EXCEPT !.skipped = @ \/ skip,
                              !.failed = @ \/ (validates /\ throws)]
<1>2. /\ st1 = IF flagged THEN ValidateInputPorts(Now, config) ELSE Now
      /\ got = IF st1.error \/ hasSettingError(config) \/ (flagged /\ throws)
               THEN NothingRead(st1) ELSE Process(st1)
      /\ st2 = IF got.needRevalidation
               THEN ValidateInputPorts(got.st, config) ELSE got.st
      /\ Become(st3)
      /\ stale' = IF validates THEN stale \ {"validation", "domain"} ELSE stale
      /\ signalDescriptorChanged' = (signalDescriptorChanged /\ ~flagged)
      /\ signalAttributeChanged' = (signalAttributeChanged /\ ~flagged)
      /\ UNCHANGED <<plugged, descriptor, name, due, config, stage, twice>>
      /\ UNCHANGED <<commonPreviewSignal, ownPreviews, signalMap, registered,
                     topics>>
  BY <1>1 DEF Reading, sdkVars, portVars
<1>3. /\ Sound(Now)
      /\ DuePorts = {} => ShapedBy(signalContexts, plugged)
      /\ DuePorts = {} /\ "validation" \notin stale => Fit(Now)
  BY <1>0, SoundNow
<1>4. CoveredBy(signalContexts, plugged) /\ TypeOK
  BY DEF BlockInv, Ports
<1> HIDE DEF throws
<1>5. /\ Sound(st1)
      /\ flagged /\ ~throws /\ DuePorts = {} => Right(st1)
      /\ ~flagged => st1 = Now
  BY <1>2, <1>3, SoundValidated DEF throws
<1>6. /\ Sound(got.st) /\ got.st.error = st1.error
      /\ Fit(st1) => Fit(got.st)
      /\ ~got.needRevalidation => Passes(st1, got.st)
  <2>1. CASE got = NothingRead(st1)
    BY <2>1, <1>5 DEF NothingRead, Passes
  <2>2. CASE got = Process(st1)
    BY <2>2, <1>4, <1>5, SoundProcessed
  <2> QED
    BY <1>2, <2>1, <2>2
<1> HIDE DEF flagged
<1>7. /\ Sound(st2)
      /\ got.needRevalidation /\ ~throws /\ DuePorts = {} => Right(st2)
      /\ ~got.needRevalidation => st2 = got.st
  BY <1>2, <1>3, <1>6, SoundValidated DEF throws
<1>8. /\ st3 \in Blocks /\ st3.contexts = st2.contexts
      /\ st3.error = st2.error /\ st3.handler = st2.handler
      /\ st3.queue = st2.queue /\ st3.failed = (st2.failed \/ (validates /\ throws))
  <2>1. /\ st2 \in Blocks /\ (st2.skipped \/ skip) \in BOOLEAN
        /\ (st2.failed \/ (validates /\ throws)) \in BOOLEAN
    BY <1>7 DEF Sound
  <2> HIDE DEF validates
  <2> QED
    BY <2>1 DEF Blocks
<1> HIDE DEF st3
<1>9. /\ signalContexts' = signalContexts /\ hasSignalError' = st2.error
      /\ handler' = st2.handler /\ queue' = st2.queue
      /\ failed' = (st2.failed \/ (validates /\ throws))
  BY <1>2, <1>7, <1>8 DEF Become, Sound
<1>10. DuePorts' = DuePorts
  BY <1>2 DEF DuePorts
<1>11. ASSUME DuePorts = {}, ~failed'
       PROVE  \/ Right(st2)
              \/ ~validates /\ Passes(Now, st2) /\ (Fit(Now) => Fit(st2))
  BY <1>5, <1>6, <1>7, <1>9, <1>11 DEF Right
<1>12. TypeOK'
  <2>1. /\ signalContexts' \in Contexts /\ signalContexts' # <<>>
        /\ hasSignalError' \in BOOLEAN /\ hasSkippedMsg' \in BOOLEAN
        /\ handler' \in [ports : Seq(Indexes \cup {NoPort}), buffers : Nat,
                          first : BOOLEAN]
        /\ queue' \in [Indexes -> Seq({"event", "data"})]
        /\ failed' \in BOOLEAN
    BY <1>2, <1>8, BecomesBlock
  <2>2. signalDescriptorChanged' \in BOOLEAN /\ signalAttributeChanged' \in BOOLEAN
    BY <1>2, <1>4 DEF TypeOK
  <2>3. stale' \subseteq Unfinished
    BY <1>2, <1>4 DEF TypeOK
  <2> QED
    BY <1>2, <1>4, <2>1, <2>2, <2>3 DEF TypeOK
<1>13. Ports' /\ Previews'
  BY <1>2, <1>9, <1>10 DEF BlockInv, Ports, Previews
<1>14. Callbacks'
  BY <1>2 DEF BlockInv, Callbacks, CallbacksMatchMap
<1>15. Knows'
  <2>1. "topics" \in stale' <=> "topics" \in stale
    BY <1>2
  <2> QED
    BY <1>0, <1>2, <1>9, <1>10, <2>1 DEF BlockInv, Knows
<1>16. Queues'
  BY <1>2, <1>7, <1>9, <1>10 DEF BlockInv, Queues, Sound
<1>17. Readers'
  <2>1. ASSUME DuePorts = {}, ~failed', "validation" \notin stale'
        PROVE  Fit(st2)
    <3>1. ~validates => stale' = stale
      BY <1>2
    <3> HIDE DEF validates
    <3> QED
      BY <1>3, <1>11, <2>1, <3>1 DEF Right
  <2> QED
    BY <1>2, <1>9, <1>10, <2>1 DEF Readers, Settled, Live, Fit
<1>18. ASSUME DuePorts = {}, ~failed'
       PROVE  \/ hasSignalError' = ~Accepts(signalContexts, config)
              \/ /\ hasSignalError' = hasSignalError
                 /\ stale' = stale /\ UNCHANGED flagVars
                 /\ \A p \in Indexes : UnreadBy(p, handler, queue, plugged) =>
                                         UnreadBy(p, handler', queue', plugged)
  <2>1. CASE Right(st2)
    BY <1>9, <2>1 DEF Right
  <2>2. CASE ~validates /\ Passes(Now, st2)
    <3>1. ~flagged /\ stale' = stale
      BY <1>2, <2>2
    <3>2. UNCHANGED flagVars
      BY <1>2, <1>4, <3>1 DEF flagVars, TypeOK
    <3>3. Passes(Now, st2)
      BY <2>2
    <3> QED
      BY <1>9, <3>1, <3>2, <3>3 DEF Passes, Now
  <2> QED
    BY <1>11, <1>18, <2>1, <2>2
<1> QED
  BY <1>9, <1>12, <1>13, <1>14, <1>15, <1>16, <1>17, <1>18 DEF BlockInv

-----------------------------------------------------------------------------
(* The steps of the SDK and its users, core events, removal. *)

\* A signal is put on the free port.
LEMMA ConnectKeeps ==
  ASSUME BlockInv, NEW p \in Indexes, NEW s \in Signals, Connect(p, s)
  PROVE  BlockInv' /\ DuePorts' # {}
<1> USE DEF BlockInv
<1>0. /\ ~failed /\ stage = "live"
      /\ p <= MaxPort /\ plugged[p] = NoSignal /\ p \notin DuePorts
      /\ plugged' = [plugged EXCEPT ![p] = s]
      /\ queue' = [queue EXCEPT ![p] = <<"event">>]
      /\ due' = due \cup {<<"connected", p>>}
      /\ twice' = (twice \/ \E q \in Indexes : plugged[q] = s)
      /\ UNCHANGED <<descriptor, name, sent, signalContexts, hasSignalError,
                     hasSkippedMsg, handler, failed, config, status, stage,
                     stale>>
      /\ UNCHANGED <<signalDescriptorChanged, signalAttributeChanged>>
      /\ UNCHANGED <<commonPreviewSignal, ownPreviews, signalMap, registered,
                     topics>>
  BY DEF Connect, Live, flagVars, portVars
<1>1. \E i \in 1..Len(signalContexts) : signalContexts[i].index = p
  <2>1. DOMAIN signalContexts = 1..Len(signalContexts)
    BY ContextsAre DEF TypeOK
  <2> QED
    BY <2>1 DEF Connect
<1>2. TypeOK /\ s # NoSignal
  BY PublisherAssumption
<1>3. plugged' \in [Indexes -> Signals \cup {NoSignal}]
      /\ \A q \in Indexes : plugged'[q] = IF q = p THEN s ELSE plugged[q]
  BY <1>0, <1>2 DEF TypeOK
<1>4. queue' \in [Indexes -> Packets]
      /\ \A q \in Indexes : queue'[q] = IF q = p THEN <<"event">> ELSE queue[q]
  BY <1>0, <1>2 DEF TypeOK, Packets
<1>5. p \in DuePorts' /\ DuePorts \subseteq DuePorts'
  BY <1>0 DEF DuePorts
<1>6. TypeOK'
  <2>1. due' \subseteq ({"connected", "disconnected"} \X Indexes) \cup
                       ({"descriptor", "name"} \X Signals)
    BY <1>0, <1>2 DEF TypeOK
  <2>2. twice' \in BOOLEAN
    BY <1>0, <1>2 DEF TypeOK
  <2> QED
    BY <1>0, <1>2, <1>3, <1>4, <2>1, <2>2 DEF TypeOK, Packets
<1>7. Ports'
  BY <1>0, <1>1, <1>3 DEF Ports, CoveredBy
<1>8. \A i \in 1..Len(signalContexts) : signalContexts[i].index \in Indexes
  <2>1. \A i \in 1..Len(signalContexts) : signalContexts[i] \in Context
    BY ContextsAre DEF TypeOK
  <2> QED
    BY <2>1 DEF Context
<1>9. Previews'
  <2>1. ASSUME NEW i \in 1..Len(signalContexts)
        PROVE  PreviewBy(signalContexts[i], plugged', config, DuePorts')
    <3>1. PreviewBy(signalContexts[i], plugged, config, DuePorts)
      BY DEF Previews
    <3> QED
      BY <1>0, <1>2, <1>3, <1>5, <1>8, <3>1 DEF PreviewBy
  <2> QED
    BY <1>0, <2>1 DEF Previews
<1>10. Callbacks'
  <2>1. ~twice' => Once(plugged')
    BY <1>0, <1>3 DEF Callbacks, Once
  <2> QED
    BY <1>0, <2>1 DEF Callbacks, CallbacksMatchMap
<1>11. Knows' /\ Readers'
  BY <1>5 DEF Knows, Readers, Settled
<1>12. Queues'
  <2>1. ASSUME handler.first, NEW q \in Range(handler.ports), q # NoPort,
               plugged'[q] # NoSignal
        PROVE  queue'[q] # <<>> /\ Head(queue'[q]) = "event"
    <3>1. q \in Indexes
      BY <1>2, <2>1 DEF TypeOK, Range
    <3>2. CASE q = p
      BY <1>4, <3>2
    <3>3. CASE q # p
      BY <1>3, <1>4, <2>1, <3>1, <3>3 DEF Queues, FreshBy
    <3> QED
      BY <3>2, <3>3
  <2>2. FreshBy(handler, queue', plugged')
    BY <2>1 DEF FreshBy
  <2> QED
    BY <1>0, <2>2 DEF Queues
<1> QED
  BY <1>5, <1>6, <1>7, <1>9, <1>10, <1>11, <1>12

\* A signal is taken off its port.
LEMMA DisconnectKeeps ==
  ASSUME BlockInv, NEW p \in Indexes, Disconnect(p)
  PROVE  BlockInv' /\ DuePorts' # {}
<1> USE DEF BlockInv
<1>0. /\ ~failed /\ stage = "live"
      /\ plugged' = [plugged EXCEPT ![p] = NoSignal]
      /\ queue' = [queue EXCEPT ![p] = <<>>]
      /\ due' = due \cup {<<"disconnected", p>>}
      /\ UNCHANGED <<descriptor, name, sent, signalContexts, hasSignalError,
                     hasSkippedMsg, handler, failed, config, status, stage,
                     twice, stale>>
      /\ UNCHANGED <<signalDescriptorChanged, signalAttributeChanged>>
      /\ UNCHANGED <<commonPreviewSignal, ownPreviews, signalMap, registered,
                     topics>>
  BY DEF Disconnect, Live, flagVars, portVars
<1>2. TypeOK
  OBVIOUS
<1>3. plugged' \in [Indexes -> Signals \cup {NoSignal}]
      /\ \A q \in Indexes : plugged'[q] = IF q = p THEN NoSignal ELSE plugged[q]
  BY <1>0, <1>2 DEF TypeOK
<1>4. queue' \in [Indexes -> Packets]
      /\ \A q \in Indexes : queue'[q] = IF q = p THEN <<>> ELSE queue[q]
  BY <1>0, <1>2 DEF TypeOK, Packets
<1>5. p \in DuePorts' /\ DuePorts \subseteq DuePorts'
  BY <1>0 DEF DuePorts
<1>6. TypeOK'
  <2>1. due' \subseteq ({"connected", "disconnected"} \X Indexes) \cup
                       ({"descriptor", "name"} \X Signals)
    BY <1>0, <1>2 DEF TypeOK
  <2> QED
    BY <1>0, <1>2, <1>3, <1>4, <2>1 DEF TypeOK, Packets
<1>7. Ports'
  BY <1>0, <1>3 DEF Ports, CoveredBy
<1>8. \A i \in 1..Len(signalContexts) : signalContexts[i].index \in Indexes
  <2>1. \A i \in 1..Len(signalContexts) : signalContexts[i] \in Context
    BY ContextsAre DEF TypeOK
  <2> QED
    BY <2>1 DEF Context
<1>9. Previews'
  <2>1. ASSUME NEW i \in 1..Len(signalContexts)
        PROVE  PreviewBy(signalContexts[i], plugged', config, DuePorts')
    <3>1. PreviewBy(signalContexts[i], plugged, config, DuePorts)
      BY DEF Previews
    <3> QED
      BY <1>0, <1>2, <1>3, <1>5, <1>8, <3>1 DEF PreviewBy
  <2> QED
    BY <1>0, <2>1 DEF Previews
<1>10. Callbacks'
  <2>1. ~twice' => Once(plugged')
    BY <1>0, <1>3 DEF Callbacks, Once
  <2> QED
    BY <1>0, <2>1 DEF Callbacks, CallbacksMatchMap
<1>11. Knows' /\ Readers'
  BY <1>5 DEF Knows, Readers, Settled
<1>12. Queues'
  <2>1. ASSUME handler.first, NEW q \in Range(handler.ports), q # NoPort,
               plugged'[q] # NoSignal
        PROVE  queue'[q] # <<>> /\ Head(queue'[q]) = "event"
    <3>1. q \in Indexes
      BY <1>2, <2>1 DEF TypeOK, Range
    <3> QED
      BY <1>3, <1>4, <2>1, <3>1 DEF Queues, FreshBy
  <2>2. FreshBy(handler, queue', plugged')
    BY <2>1 DEF FreshBy
  <2> QED
    BY <1>0, <2>2 DEF Queues
<1> QED
  BY <1>5, <1>6, <1>7, <1>9, <1>10, <1>11, <1>12

\* Packets that arrive hide none that is there.
LEMMA Enqueued ==
  ASSUME BlockInv, NEW s, NEW packet \in {"event", "data"}, Enqueue(s, packet)
  PROVE  /\ queue' \in [Indexes -> Packets] /\ FreshBy(handler, queue', plugged)
         /\ \A p \in Indexes : UnreadBy(p, handler, queue, plugged) =>
                                 UnreadBy(p, handler, queue', plugged)
         /\ \A p \in Indexes :
              packet = "event" /\ plugged[p] = s /\ s # NoSignal =>
                UnreadBy(p, handler, queue', plugged)
<1>1. \A p \in Indexes : queue[p] \in Packets
  BY DEF BlockInv, TypeOK, Packets
<1>2. \A p \in Indexes :
        queue'[p] = IF plugged[p] = s THEN Append(queue[p], packet) ELSE queue[p]
  BY DEF Enqueue
<1>3. queue' = [p \in Indexes |-> queue'[p]]
  BY DEF Enqueue
<1>4. FreshBy(handler, queue, plugged)
  BY DEF BlockInv, Queues
<1>5. \A p \in Range(handler.ports) : p # NoPort => p \in Indexes
  BY DEF BlockInv, TypeOK, Range
<1> DEFINE new(p) == Append(queue[p], packet)
<1>6. \A p \in Indexes :
        /\ new(p) \in Packets /\ new(p) # <<>>
        /\ queue[p] # <<>> => Head(new(p)) = Head(queue[p])
        /\ Cardinality(Events(queue[p])) > 0 => Cardinality(Events(new(p))) > 0
        /\ Cardinality(Events(queue[p])) > 1 => Cardinality(Events(new(p))) > 1
        /\ packet = "event" => Cardinality(Events(new(p))) > 0
        /\ packet = "event" /\ queue[p] # <<>> /\ Head(queue[p]) = "event" =>
              Cardinality(Events(new(p))) > 1
  BY <1>1, MoreEvents
<1>7. \A p \in Indexes : queue'[p] = IF plugged[p] = s THEN new(p) ELSE queue[p]
  BY <1>2
<1> HIDE DEF new
<1>8. queue' \in [Indexes -> Packets]
  BY <1>1, <1>3, <1>6, <1>7
<1>9. FreshBy(handler, queue', plugged)
  BY <1>4, <1>5, <1>6, <1>7 DEF FreshBy
<1>10. ASSUME NEW p \in Indexes, UnreadBy(p, handler, queue, plugged)
       PROVE  UnreadBy(p, handler, queue', plugged)
  <2>1. CASE plugged[p] = s
    <3>1. queue'[p] = new(p)
      BY <1>7, <2>1
    <3>2. Cardinality(Events(queue'[p])) >
            (IF p \in Range(handler.ports) /\ handler.first THEN 1 ELSE 0)
      BY <1>6, <1>10, <3>1 DEF UnreadBy, Events
    <3> QED
      BY <1>10, <3>2 DEF UnreadBy, Events
  <2>2. CASE plugged[p] # s
    BY <1>7, <1>10, <2>2 DEF UnreadBy
  <2> QED
    BY <2>1, <2>2
<1>11. ASSUME NEW p \in Indexes, packet = "event", plugged[p] = s, s # NoSignal
       PROVE  UnreadBy(p, handler, queue', plugged)
  <2>1. queue'[p] = new(p)
    BY <1>7, <1>11
  <2>2. p \in Range(handler.ports) /\ handler.first =>
          queue[p] # <<>> /\ Head(queue[p]) = "event"
    <3>1. p # NoPort
      BY DEF Indexes, NoPort
    <3> QED
      BY <1>4, <1>11, <3>1 DEF FreshBy
  <2>3. Cardinality(Events(queue'[p])) >
          (IF p \in Range(handler.ports) /\ handler.first THEN 1 ELSE 0)
    BY <1>6, <1>11, <2>1, <2>2
  <2> QED
    BY <1>11, <2>3 DEF UnreadBy, Events
<1> QED
  BY <1>8, <1>9, <1>10, <1>11

\* Steps of the SDK that leave the ports alone.
LEMMA SameKeeps ==
  ASSUME BlockInv, TypeOK', DuePorts' = DuePorts,
         UNCHANGED <<plugged, signalContexts, hasSignalError, handler, failed,
                     config, stage, twice, commonPreviewSignal, ownPreviews,
                     signalMap, registered, topics, stale>>,
         FreshBy(handler, queue', plugged)
  PROVE  BlockInv'
<1> USE DEF BlockInv
<1>1. Ports' /\ Previews'
  BY DEF Ports, Previews
<1>2. Callbacks'
  BY DEF Callbacks, CallbacksMatchMap
<1>3. Knows'
  BY DEF Knows
<1>4. Queues' /\ Readers'
  BY DEF Queues, Readers, Settled, Live
<1> QED
  BY <1>1, <1>2, <1>3, <1>4

\* A core event is put on its way if the signal has a callback.
LEMMA NotifyAdds ==
  ASSUME TypeOK, NEW s \in Signals, NEW what \in {"descriptor", "name"},
         Notify(s, what)
  PROVE  /\ due' \subseteq ({"connected", "disconnected"} \X Indexes) \cup
                           ({"descriptor", "name"} \X Signals)
         /\ due \subseteq due' /\ DuePorts' = DuePorts
         /\ registered[s] > 0 => <<what, s>> \in due'
<1>1. due' = due \/ due' = due \cup {<<what, s>>}
  BY DEF Notify
<1>2. <<what, s>> \in {"descriptor", "name"} \X Signals
  OBVIOUS
<1>3. DuePorts' = DuePorts
  BY <1>1 DEF DuePorts
<1> QED
  BY <1>1, <1>2, <1>3 DEF Notify, TypeOK

\* The signal's own descriptor changes.
LEMMA ChangeDescriptorKeeps ==
  ASSUME BlockInv, NEW s \in Signals, NEW d \in Kinds,
         ChangeDescriptor(s, d)
  PROVE  BlockInv' /\ DuePorts' = DuePorts
<1>0. /\ Enqueue(s, "event") /\ Notify(s, "descriptor")
      /\ descriptor' = [descriptor EXCEPT ![s] = d]
      /\ UNCHANGED <<plugged, name, sent, flagVars, portVars, signalContexts,
                     hasSignalError, hasSkippedMsg, handler, failed, config,
                     status, stage, twice, stale>>
  BY DEF ChangeDescriptor
<1>1. TypeOK
  BY DEF BlockInv
<1>2. queue' \in [Indexes -> Packets] /\ FreshBy(handler, queue', plugged)
  BY <1>0, Enqueued
<1>3. /\ due' \subseteq ({"connected", "disconnected"} \X Indexes) \cup
                        ({"descriptor", "name"} \X Signals)
      /\ DuePorts' = DuePorts
  BY <1>0, <1>1, NotifyAdds
<1>4. TypeOK'
  BY <1>0, <1>1, <1>2, <1>3 DEF TypeOK, Packets, flagVars, portVars
<1> QED
  BY <1>0, <1>2, <1>3, <1>4, SameKeeps DEF portVars

\* A domain changes.
LEMMA ChangeDomainKeeps ==
  ASSUME BlockInv, NEW s \in Signals, NEW d \in Kinds, ChangeDomain(s, d)
  PROVE  BlockInv' /\ DuePorts' = DuePorts
<1> USE DEF BlockInv
<1>0. /\ Enqueue(s, "event")
      /\ descriptor' = [descriptor EXCEPT ![s] = d]
      /\ stale' = stale \/ stale' = stale \cup {"domain"}
      /\ UNCHANGED <<plugged, name, sent, due, signalContexts, hasSignalError,
                     hasSkippedMsg, handler, failed, config, status, stage,
                     twice>>
      /\ UNCHANGED <<signalDescriptorChanged, signalAttributeChanged>>
      /\ UNCHANGED <<commonPreviewSignal, ownPreviews, signalMap, registered,
                     topics>>
  BY DEF ChangeDomain, flagVars, portVars
<1>1. queue' \in [Indexes -> Packets] /\ FreshBy(handler, queue', plugged)
  BY <1>0, Enqueued
<1>2. DuePorts' = DuePorts
  BY <1>0 DEF DuePorts
<1>3. TypeOK'
  <2>1. descriptor' \in [Signals -> Kinds]
    BY <1>0 DEF TypeOK
  <2>2. stale' \subseteq Unfinished
    BY <1>0 DEF TypeOK, Unfinished
  <2> QED
    BY <1>0, <1>1, <2>1, <2>2 DEF TypeOK, Packets
<1>4. Ports' /\ Previews'
  BY <1>0, <1>2 DEF Ports, Previews
<1>5. Callbacks'
  BY <1>0 DEF Callbacks, CallbacksMatchMap
<1>6. Knows' /\ Readers'
  <2>1. /\ "topics" \in stale' <=> "topics" \in stale
        /\ "validation" \in stale' <=> "validation" \in stale
    BY <1>0
  <2> QED
    BY <1>0, <1>2, <2>1 DEF Knows, Readers, Settled, Live
<1>7. Queues'
  BY <1>0, <1>1, <1>2 DEF Queues
<1> QED
  BY <1>2, <1>3, <1>4, <1>5, <1>6, <1>7

\* A signal is renamed.
LEMMA RenameKeeps ==
  ASSUME BlockInv, NEW s \in Signals, NEW n \in Names, Rename(s, n)
  PROVE  BlockInv' /\ DuePorts' = DuePorts
<1>0. /\ Notify(s, "name")
      /\ name' = [name EXCEPT ![s] = n]
      /\ UNCHANGED <<plugged, descriptor, sent, flagVars, portVars, coreVars,
                     config, status, stage, twice, stale>>
  BY DEF Rename
<1>1. TypeOK
  BY DEF BlockInv
<1>2. FreshBy(handler, queue', plugged)
  BY <1>0 DEF BlockInv, Queues, coreVars
<1>3. /\ due' \subseteq ({"connected", "disconnected"} \X Indexes) \cup
                        ({"descriptor", "name"} \X Signals)
      /\ DuePorts' = DuePorts
  BY <1>0, <1>1, NotifyAdds
<1>4. TypeOK'
  BY <1>0, <1>1, <1>3 DEF TypeOK, flagVars, portVars, coreVars
<1> QED
  BY <1>0, <1>2, <1>3, <1>4, SameKeeps DEF portVars, coreVars

\* A signal sends a packet.
LEMMA SendPacketKeeps ==
  ASSUME BlockInv, NEW s \in Signals, SendPacket(s)
  PROVE  BlockInv' /\ DuePorts' = DuePorts
<1>0. /\ Enqueue(s, "data")
      /\ UNCHANGED <<plugged, descriptor, name, due, flagVars, portVars,
                     signalContexts, hasSignalError, hasSkippedMsg, handler,
                     failed, config, status, stage, twice, stale>>
  BY DEF SendPacket
<1>1. TypeOK
  BY DEF BlockInv
<1>2. queue' \in [Indexes -> Packets] /\ FreshBy(handler, queue', plugged)
  BY <1>0, Enqueued
<1>3. DuePorts' = DuePorts
  BY <1>0 DEF DuePorts
<1>4. TypeOK'
  BY <1>0, <1>1, <1>2 DEF TypeOK, Packets, flagVars, portVars
<1> QED
  BY <1>0, <1>2, <1>3, <1>4, SameKeeps DEF portVars

\* A core event arrives.
LEMMA CoreEventCallbackKeeps ==
  ASSUME BlockInv, NEW s \in Signals, NEW what \in {"descriptor", "name"},
         CoreEventCallback(s, what)
  PROVE  BlockInv' /\ DuePorts' = DuePorts
<1>0. /\ due' = due \ {<<what, s>>}
      /\ UNCHANGED <<sdkVars, portVars, coreVars, config, status, stage, twice,
                     stale>>
  BY DEF CoreEventCallback
<1>1. TypeOK
  BY DEF BlockInv
<1>2. FreshBy(handler, queue', plugged)
  BY <1>0 DEF BlockInv, Queues, coreVars
<1>3. DuePorts' = DuePorts
  BY <1>0 DEF DuePorts
<1>4. signalDescriptorChanged' \in BOOLEAN /\ signalAttributeChanged' \in BOOLEAN
  BY <1>1 DEF CoreEventCallback, TypeOK
<1>5. TypeOK'
  BY <1>0, <1>1, <1>4 DEF TypeOK, sdkVars, portVars, coreVars
<1> QED
  BY <1>0, <1>2, <1>3, <1>5, SameKeeps DEF portVars, coreVars, sdkVars

\* The steps of removed.
LEMMA RemovedKeeps ==
  ASSUME BlockInv, RemovedJoin \/ RemovedClear \/ RemovedRelease
  PROVE  BlockInv'
<1> USE DEF BlockInv
<1>1. ASSUME RemovedJoin PROVE BlockInv'
  <2>0. /\ DuePorts = {} /\ stage' = "joined"
        /\ UNCHANGED <<sdkVars, due, flagVars, portVars, coreVars, config,
                       status, twice, stale>>
    BY <1>1 DEF RemovedJoin
  <2>1. DuePorts' = DuePorts
    BY <2>0 DEF DuePorts
  <2> USE DEF sdkVars, flagVars, portVars, coreVars
  <2>2. TypeOK'
    BY <2>0 DEF TypeOK
  <2>3. Ports' /\ Previews'
    BY <2>0, <2>1 DEF Ports, Previews
  <2>4. Callbacks'
    BY <2>0 DEF Callbacks, CallbacksMatchMap
  <2>5. Knows'
    BY <2>0, <2>1 DEF Knows
  <2>6. Queues' /\ Readers'
    BY <2>0, <2>1 DEF Queues, Readers, Settled, Live
  <2> QED
    BY <2>2, <2>3, <2>4, <2>5, <2>6
<1>2. ASSUME RemovedClear PROVE BlockInv'
  <2>0. /\ stage = "joined" /\ stage' = "cleared" /\ signalMap' = {}
        /\ registered' = [s \in Signals |->
             registered[s] - (IF s \in signalMap THEN 1 ELSE 0)]
        /\ UNCHANGED <<sdkVars, due, flagVars, commonPreviewSignal,
                       ownPreviews, topics, coreVars, config, status, twice,
                       stale>>
    BY <1>2 DEF RemovedClear
  <2>1. DuePorts' = DuePorts
    BY <2>0 DEF DuePorts
  <2>7. \A s \in Signals :
          /\ registered[s] \in Nat
          /\ s \in signalMap => registered[s] > 0
          /\ ~twice => registered[s] = IF s \in signalMap THEN 1 ELSE 0
    BY DEF TypeOK, Callbacks, CallbacksMatchMap
  <2>8. /\ \A s \in Signals :
             registered'[s] \in Nat /\ (~twice => registered'[s] = 0)
        /\ registered' = [s \in Signals |-> registered'[s]]
    BY <2>0, <2>7
  <2> USE DEF sdkVars, flagVars, coreVars
  <2>2. TypeOK'
    BY <2>0, <2>8 DEF TypeOK
  <2>3. Ports' /\ Previews'
    BY <2>0, <2>1 DEF Ports, Previews
  <2>4. Callbacks'
    BY <2>0, <2>8 DEF Callbacks, CallbacksMatchMap
  <2>5. Knows'
    BY <2>0, <2>1 DEF Knows
  <2>6. Queues' /\ Readers'
    BY <2>0, <2>1 DEF Queues, Readers, Settled, Live
  <2> QED
    BY <2>2, <2>3, <2>4, <2>5, <2>6
<1>3. ASSUME RemovedRelease PROVE BlockInv'
  <2>0. /\ stage = "cleared" /\ stage' = "gone" /\ handler' = NoReader
        /\ UNCHANGED <<sdkVars, due, flagVars, portVars, signalContexts,
                       hasSignalError, hasSkippedMsg, queue, failed, config,
                       status, twice, stale>>
    BY <1>3 DEF RemovedRelease
  <2>1. DuePorts' = DuePorts
    BY <2>0 DEF DuePorts
  <2>7. NoReader \in Handlers /\ NoReader.ports = <<>>
        /\ FreshBy(NoReader, queue, plugged)
    BY DEF NoReader, Handlers, FreshBy, Range
  <2> USE DEF sdkVars, flagVars, portVars
  <2>2. TypeOK'
    BY <2>0, <2>7 DEF TypeOK, Handlers
  <2>3. Ports' /\ Previews'
    BY <2>0, <2>1 DEF Ports, Previews
  <2>4. Callbacks'
    BY <2>0 DEF Callbacks, CallbacksMatchMap
  <2>5. Knows'
    BY <2>0, <2>1 DEF Knows
  <2>6. Queues' /\ Readers'
    BY <2>0, <2>1, <2>7 DEF Queues, Readers, Settled, Live
  <2> QED
    BY <2>2, <2>3, <2>4, <2>5, <2>6
<1> QED
  BY <1>1, <1>2, <1>3

-----------------------------------------------------------------------------
(* No change is lost. *)

\* Accepts for signals, with their descriptors and names as parameters.
AcceptsBy(s, descr, nm, set) ==
  /\ IsInjective(s)
  /\ \A i \in DOMAIN s : /\ descr[s[i]].value = "number"
                         /\ descr[s[i]].domain \in FitDomains(set)
  /\ set.single =>
       \A i, j \in DOMAIN s : descr[s[i]].domain = descr[s[j]].domain
  /\ set.single /\ set.byName => IsInjective([i \in DOMAIN s |-> nm[s[i]]])

\* Accepts in this state.
LEMMA AcceptsNow ==
  ASSUME NEW c, NEW set
  PROVE  Accepts(c, set) =
           AcceptsBy(SignalsBy(c, plugged), descriptor, name, set)
  BY SignalsNow DEF Accepts, AcceptsBy

\* Accepts in the next state.
LEMMA AcceptsThen ==
  Accepts(signalContexts, config)' =
    AcceptsBy(SignalsBy(signalContexts', plugged'), descriptor', name', config')
  BY SignalsThen DEF Accepts, AcceptsBy

\* After validation there is nothing to be late with.
LEMMA JustValidated ==
  ASSUME NEW set, config' = set, UNCHANGED <<plugged, descriptor, name>>,
         "validation" \notin stale' =>
           hasSignalError' = ~Accepts(signalContexts', set)
  PROVE  NoChangeLost'
<1>1. Accepts(signalContexts', set) =
        AcceptsBy(SignalsBy(signalContexts', plugged), descriptor, name, set)
  BY AcceptsNow
<1>2. Accepts(signalContexts, config)' = Accepts(signalContexts', set)
  BY <1>1, AcceptsThen
<1> QED
  BY <1>2 DEF NoChangeLost

\* The answer of validation depends on the signals on the ports.
LEMMA OtherSignal ==
  ASSUME NEW s, NEW set, NEW descr, NEW nm, NEW descr2, NEW nm2,
         \A i \in DOMAIN s : descr2[s[i]] = descr[s[i]] /\ nm2[s[i]] = nm[s[i]]
  PROVE  AcceptsBy(s, descr2, nm2, set) = AcceptsBy(s, descr, nm, set)
<1>1. [i \in DOMAIN s |-> nm2[s[i]]] = [i \in DOMAIN s |-> nm[s[i]]]
  OBVIOUS
<1> QED
  BY <1>1 DEF AcceptsBy

\* UnreadChange in this state.
LEMMA UnreadIs ==
  ASSUME NEW p
  PROVE  UnreadChange(p) <=> UnreadBy(p, handler, queue, plugged)
  BY DEF UnreadChange, UnreadBy

\* UnreadChange in the next state.
LEMMA UnreadWillBe ==
  (\E p \in Indexes : UnreadChange(p))' <=>
     \E p \in Indexes : UnreadBy(p, handler', queue', plugged')
  BY DEF UnreadChange, UnreadBy

\* A signal that is on a port is one the block has a callback for.
LEMMA OnPortIsKnown ==
  ASSUME BlockInv, Live, DuePorts = {}
  PROVE  /\ ShapedBy(signalContexts, plugged)
         /\ \A s \in Range(SignalsBy(signalContexts, plugged)) :
              s \in signalMap /\ s \in Signals /\ registered[s] > 0
         /\ \A p \in Indexes : plugged[p] # NoSignal =>
              plugged[p] \in Range(SignalsBy(signalContexts, plugged))
         /\ \A s \in Range(SignalsBy(signalContexts, plugged)) :
              s # NoSignal /\ \E p \in Indexes : plugged[p] = s
<1> DEFINE c == signalContexts
           n == Len(c)
           s == SignalsBy(c, plugged)
<1>1. /\ ShapedBy(c, plugged) /\ signalMap = Range(s)
      /\ CoveredBy(c, plugged) /\ AscendingIn(c)
  BY DEF BlockInv, Knows, Live, Ports
<1>2. c \in Seq(Context) /\ c # <<>> /\ TypeOK
  BY ContextsAre DEF BlockInv, TypeOK
<1>3. s = [i \in 1..n - 1 |-> plugged[c[i].index]]
  BY <1>1, <1>2, ShapedSignals
<1>4. n \in Nat /\ \A i \in 1..n : c[i].index \in Indexes
  <2>1. \A i \in 1..n : c[i] \in Context
    BY <1>2
  <2> QED
    BY <1>2, <2>1 DEF Context
<1>5. \A i \in DOMAIN s : s[i] \in Signals
  BY <1>1, <1>2, SignalsAre
<1>6. \A x \in Signals : x \in signalMap => registered[x] > 0
  BY DEF BlockInv, Callbacks, CallbacksMatchMap
<1>7. \A x \in Range(s) : x \in signalMap /\ x \in Signals /\ registered[x] > 0
  <2> HIDE DEF s
  <2> QED
    BY <1>1, <1>5, <1>6 DEF Range
<1> HIDE DEF s, c, n
<1>8. ASSUME NEW p \in Indexes, plugged[p] # NoSignal
      PROVE  plugged[p] \in Range(s)
  <2>1. PICK i \in 1..n : c[i].index = p
    BY <1>1, <1>8 DEF CoveredBy, n
  <2>2. i \in 1..n - 1
    BY <1>1, <1>4, <1>8, <2>1 DEF ShapedBy, n
  <2> QED
    BY <1>3, <2>1, <2>2 DEF Range
<1>9. ASSUME NEW x \in Range(s)
      PROVE  x # NoSignal /\ \E p \in Indexes : plugged[p] = x
  <2>1. PICK i \in 1..n - 1 : x = plugged[c[i].index]
    BY <1>3 DEF Range
  <2>2. c[i].index \in Indexes
    BY <1>4
  <2> QED
    BY <1>7, <2>1, <2>2, PublisherAssumption
<1> QED
  BY <1>1, <1>7, <1>8, <1>9 DEF s, c

\* A descriptor or a name changes: someone is told, or it does not matter.
LEMMA ChangeIsNoticed ==
  ASSUME BlockInv, NoChangeLost, NEW x \in Signals,
         UNCHANGED <<plugged, signalContexts, hasSignalError, handler, failed,
                     config, stage, signalMap, signalDescriptorChanged,
                     signalAttributeChanged, stale>>,
         DuePorts' = DuePorts, due \subseteq due',
         \A q \in Signals \ {x} : descriptor'[q] = descriptor[q]
                                  /\ name'[q] = name[q],
         \A p \in Indexes : UnreadBy(p, handler, queue, plugged) =>
                              UnreadBy(p, handler', queue', plugged'),
         registered[x] > 0 /\ (\E p \in Indexes : plugged[p] = x) =>
           \/ <<"name", x>> \in due'
           \/ /\ <<"descriptor", x>> \in due' \/ ~hasSignalError
              /\ \A p \in Indexes : plugged[p] = x /\ x # NoSignal =>
                   UnreadBy(p, handler', queue', plugged')
  PROVE  NoChangeLost'
<1> DEFINE s == SignalsBy(signalContexts, plugged)
<1>1. SUFFICES ASSUME Live, DuePorts = {},
                      stale \cap {"validation", "domain"} = {},
                      hasSignalError # ~(Accepts(signalContexts, config)')
               PROVE  \/ signalAttributeChanged
                      \/ \E q \in signalMap : <<"name", q>> \in due'
                      \/ /\ hasSignalError
                         /\ \/ signalDescriptorChanged
                            \/ \E q \in signalMap : <<"descriptor", q>> \in due'
                      \/ /\ ~hasSignalError
                         /\ \E p \in Indexes :
                              UnreadBy(p, handler', queue', plugged')
  <2>1. Live' = Live
    BY DEF Live
  <2> QED
    BY <2>1, UnreadWillBe DEF NoChangeLost
<1>2. hasSignalError \in BOOLEAN
  BY DEF BlockInv, TypeOK
<1>3. /\ \A q \in Range(s) : q \in signalMap /\ q \in Signals /\ registered[q] > 0
      /\ \A q \in Range(s) : q # NoSignal /\ \E p \in Indexes : plugged[p] = q
  BY <1>1, OnPortIsKnown
<1>4. CASE x \in Range(s)
  <2>1. x \in signalMap /\ registered[x] > 0 /\ x # NoSignal
    BY <1>3, <1>4
  <2>2. PICK p \in Indexes : plugged[p] = x
    BY <1>3, <1>4
  <2> QED
    BY <1>2, <2>1, <2>2
<1>5. CASE x \notin Range(s)
  <2>1. \A i \in DOMAIN s : s[i] \in Signals \ {x}
    BY <1>3, <1>5 DEF Range
  <2> HIDE DEF s
  <2>2. AcceptsBy(s, descriptor', name', config) =
          AcceptsBy(s, descriptor, name, config)
    <3>1. \A i \in DOMAIN s : descriptor'[s[i]] = descriptor[s[i]]
                              /\ name'[s[i]] = name[s[i]]
      BY <2>1
    <3> QED
      BY <3>1, OtherSignal
  <2>3. Accepts(signalContexts, config)' = Accepts(signalContexts, config)
    BY <2>2, AcceptsNow, AcceptsThen DEF s
  <2>4. \/ signalAttributeChanged \/ \E q \in signalMap : <<"name", q>> \in due
        \/ /\ hasSignalError
           /\ \/ signalDescriptorChanged
              \/ \E q \in signalMap : <<"descriptor", q>> \in due
        \/ /\ ~hasSignalError
           /\ \E p \in Indexes : UnreadBy(p, handler, queue, plugged)
    BY <1>1, <2>3, UnreadIs DEF NoChangeLost
  <2> QED
    BY <2>4
<1> QED
  BY <1>4, <1>5

\* The inductive invariant.
IInv == BlockInv /\ NoChangeLost

\* Where a callback of a port is still to come, it will validate.
LEMMA ToCome ==
  ASSUME DuePorts' # {}
  PROVE  NoChangeLost'
  BY DEF NoChangeLost

\* A signal is put on the free port: its callback is still to come.
LEMMA ConnectLosesNothing ==
  ASSUME IInv, NEW p \in Indexes, NEW s \in Signals, Connect(p, s)
  PROVE  IInv'
  BY ConnectKeeps, ToCome DEF IInv

\* A signal is taken off its port: its callback is still to come.
LEMMA DisconnectLosesNothing ==
  ASSUME IInv, NEW p \in Indexes, Disconnect(p)
  PROVE  IInv'
  BY DisconnectKeeps, ToCome DEF IInv

\* A descriptor changes: a core event is due and a packet lies in the queue.
LEMMA ChangeDescriptorLosesNothing ==
  ASSUME IInv, NEW s \in Signals, NEW d \in Kinds,
         ChangeDescriptor(s, d)
  PROVE  IInv'
<1>1. BlockInv /\ NoChangeLost /\ TypeOK
  BY DEF IInv, BlockInv
<1>2. BlockInv' /\ DuePorts' = DuePorts
  BY <1>1, ChangeDescriptorKeeps
<1>3. /\ Enqueue(s, "event") /\ Notify(s, "descriptor")
      /\ descriptor' = [descriptor EXCEPT ![s] = d]
  BY DEF ChangeDescriptor
<1>4. /\ UNCHANGED <<plugged, signalContexts, hasSignalError, handler, failed,
                     config, stage, signalMap, signalDescriptorChanged,
                     signalAttributeChanged, stale>>
      /\ UNCHANGED name
  BY DEF ChangeDescriptor, flagVars, portVars
<1>5. /\ \A p \in Indexes : UnreadBy(p, handler, queue, plugged) =>
                              UnreadBy(p, handler', queue', plugged')
      /\ \A p \in Indexes : plugged[p] = s /\ s # NoSignal =>
           UnreadBy(p, handler', queue', plugged')
  BY <1>1, <1>3, <1>4, Enqueued
<1>6. /\ due \subseteq due'
      /\ registered[s] > 0 => <<"descriptor", s>> \in due'
  BY <1>1, <1>3, NotifyAdds
<1>7. \A q \in Signals \ {s} : descriptor'[q] = descriptor[q]
                               /\ name'[q] = name[q]
  BY <1>1, <1>3, <1>4 DEF TypeOK
<1> QED
  BY <1>1, <1>2, <1>4, <1>5, <1>6, <1>7, ChangeIsNoticed DEF IInv

\* A domain changes: a packet lies in the queue, which is read unless there is
\* an error; and there is nobody to tell of a signal that is on no port.
LEMMA ChangeDomainLosesNothing ==
  ASSUME IInv, NEW s \in Signals, NEW d \in Kinds, ChangeDomain(s, d)
  PROVE  IInv'
<1>1. BlockInv /\ NoChangeLost /\ TypeOK
  BY DEF IInv, BlockInv
<1>2. BlockInv' /\ DuePorts' = DuePorts
  BY <1>1, ChangeDomainKeeps
<1>3. /\ Enqueue(s, "event")
      /\ descriptor' = [descriptor EXCEPT ![s] = d]
      /\ stale' = IF hasSignalError /\ \E p \in Indexes : plugged[p] = s
                  THEN stale \cup {"domain"} ELSE stale
  BY DEF ChangeDomain
<1>4. UNCHANGED <<plugged, signalContexts, hasSignalError, handler, failed,
                  config, stage, signalMap, signalDescriptorChanged,
                  signalAttributeChanged, due, name>>
  BY DEF ChangeDomain, flagVars, portVars
<1>5. /\ \A p \in Indexes : UnreadBy(p, handler, queue, plugged) =>
                              UnreadBy(p, handler', queue', plugged')
      /\ \A p \in Indexes : plugged[p] = s /\ s # NoSignal =>
           UnreadBy(p, handler', queue', plugged')
  BY <1>1, <1>3, <1>4, Enqueued
<1>6. \A q \in Signals \ {s} : descriptor'[q] = descriptor[q]
                               /\ name'[q] = name[q]
  BY <1>1, <1>3, <1>4 DEF TypeOK
<1>7. CASE hasSignalError /\ \E p \in Indexes : plugged[p] = s
  <2>1. NoChangeLost'
    BY <1>3, <1>7 DEF NoChangeLost
  <2> QED
    BY <1>2, <2>1 DEF IInv
<1>8. CASE ~ (hasSignalError /\ \E p \in Indexes : plugged[p] = s)
  <2>1. stale' = stale
    BY <1>3, <1>8
  <2>2. NoChangeLost'
    BY <1>1, <1>2, <1>4, <1>5, <1>6, <1>8, <2>1, ChangeIsNoticed
  <2> QED
    BY <1>2, <2>2 DEF IInv
<1> QED
  BY <1>7, <1>8

\* A signal is renamed: a core event is due.
LEMMA RenameLosesNothing ==
  ASSUME IInv, NEW s \in Signals, NEW n \in Names, Rename(s, n)
  PROVE  IInv'
<1>1. BlockInv /\ NoChangeLost /\ TypeOK
  BY DEF IInv, BlockInv
<1>2. BlockInv' /\ DuePorts' = DuePorts
  BY <1>1, RenameKeeps
<1>3. Notify(s, "name") /\ name' = [name EXCEPT ![s] = n]
  BY DEF Rename
<1>4. /\ UNCHANGED <<plugged, signalContexts, hasSignalError, handler, failed,
                     config, stage, signalMap, signalDescriptorChanged,
                     signalAttributeChanged, stale>>
      /\ UNCHANGED <<descriptor, queue>>
  BY DEF Rename, flagVars, portVars, coreVars
<1>5. \A p \in Indexes : UnreadBy(p, handler, queue, plugged) =>
                           UnreadBy(p, handler', queue', plugged')
  BY <1>4
<1>6. /\ due \subseteq due'
      /\ registered[s] > 0 => <<"name", s>> \in due'
  BY <1>1, <1>3, NotifyAdds
<1>7. \A q \in Signals \ {s} : descriptor'[q] = descriptor[q]
                               /\ name'[q] = name[q]
  BY <1>1, <1>3, <1>4 DEF TypeOK
<1> QED
  BY <1>1, <1>2, <1>4, <1>5, <1>6, <1>7, ChangeIsNoticed DEF IInv

\* Validation would say what it said before, and all that was on its way still
\* is.
LEMMA StillOnItsWay ==
  ASSUME NoChangeLost,
         UNCHANGED <<plugged, descriptor, name, signalContexts, config,
                     hasSignalError, failed, stage, signalMap, stale>>,
         DuePorts' = DuePorts,
         signalAttributeChanged \/ (\E s \in signalMap : <<"name", s>> \in due)
           => signalAttributeChanged'
              \/ \E s \in signalMap : <<"name", s>> \in due',
         hasSignalError /\ (signalDescriptorChanged
                            \/ \E s \in signalMap : <<"descriptor", s>> \in due)
           => signalDescriptorChanged'
              \/ \E s \in signalMap : <<"descriptor", s>> \in due',
         \A p \in Indexes : UnreadBy(p, handler, queue, plugged) =>
                              UnreadBy(p, handler', queue', plugged')
  PROVE  NoChangeLost'
<1>1. Accepts(signalContexts, config)' = Accepts(signalContexts, config)
  BY AcceptsNow, AcceptsThen
<1>2. Live' = Live
  BY DEF Live
<1>3. (\E p \in Indexes : UnreadChange(p)) =>
        (\E p \in Indexes : UnreadChange(p))'
  BY UnreadIs, UnreadWillBe
<1> HIDE DEF Live
<1>4. SUFFICES ASSUME Live, DuePorts = {},
                      stale \cap {"validation", "domain"} = {},
                      hasSignalError # ~Accepts(signalContexts, config)
               PROVE  \/ signalAttributeChanged'
                      \/ \E s \in signalMap : <<"name", s>> \in due'
                      \/ /\ hasSignalError
                         /\ \/ signalDescriptorChanged'
                            \/ \E s \in signalMap : <<"descriptor", s>> \in due'
                      \/ /\ ~hasSignalError
                         /\ (\E p \in Indexes : UnreadChange(p))'
  BY <1>1, <1>2 DEF NoChangeLost
<1>5. \/ signalAttributeChanged \/ \E s \in signalMap : <<"name", s>> \in due
      \/ /\ hasSignalError
         /\ \/ signalDescriptorChanged
            \/ \E s \in signalMap : <<"descriptor", s>> \in due
      \/ ~hasSignalError /\ \E p \in Indexes : UnreadChange(p)
  BY <1>4 DEF NoChangeLost
<1> QED
  BY <1>3, <1>5

\* A data packet takes nothing away.
LEMMA SendPacketLosesNothing ==
  ASSUME IInv, NEW s \in Signals, SendPacket(s)
  PROVE  IInv'
<1>1. BlockInv /\ NoChangeLost
  BY DEF IInv
<1>2. BlockInv' /\ DuePorts' = DuePorts
  BY <1>1, SendPacketKeeps
<1>3. /\ Enqueue(s, "data")
      /\ UNCHANGED <<plugged, descriptor, name, signalContexts, config,
                     hasSignalError, failed, stage, signalMap, stale>>
      /\ UNCHANGED <<due, handler, signalDescriptorChanged,
                     signalAttributeChanged>>
  BY DEF SendPacket, flagVars, portVars
<1>4. \A p \in Indexes : UnreadBy(p, handler, queue, plugged) =>
                           UnreadBy(p, handler', queue', plugged')
  BY <1>1, <1>3, Enqueued
<1> QED
  BY <1>1, <1>2, <1>3, <1>4, StillOnItsWay DEF IInv

\* A core event arrives: where it matters, a flag is in its place.
LEMMA CoreEventCallbackLosesNothing ==
  ASSUME IInv, NEW s \in Signals, NEW what \in {"descriptor", "name"},
         CoreEventCallback(s, what)
  PROVE  IInv'
<1>1. BlockInv /\ NoChangeLost
  BY DEF IInv
<1>2. BlockInv' /\ DuePorts' = DuePorts
  BY <1>1, CoreEventCallbackKeeps
<1>3. /\ due' = due \ {<<what, s>>}
      /\ signalDescriptorChanged' =
           (signalDescriptorChanged \/
              (what = "descriptor" /\ s \in signalMap /\ hasSignalError))
      /\ signalAttributeChanged' =
           (signalAttributeChanged \/ (what = "name" /\ s \in signalMap))
      /\ UNCHANGED <<plugged, descriptor, name, signalContexts, config,
                     hasSignalError, failed, stage, signalMap, stale>>
      /\ UNCHANGED <<handler, queue>>
  BY DEF CoreEventCallback, sdkVars, portVars, coreVars
<1>4. \A q : <<"name", q>> \in due =>
        <<"name", q>> \in due' \/ (what = "name" /\ q = s)
  BY <1>3
<1>5. \A q : <<"descriptor", q>> \in due =>
        <<"descriptor", q>> \in due' \/ (what = "descriptor" /\ q = s)
  BY <1>3
<1>6. signalAttributeChanged \/ (\E q \in signalMap : <<"name", q>> \in due)
        => signalAttributeChanged'
           \/ \E q \in signalMap : <<"name", q>> \in due'
  BY <1>3, <1>4
<1>7. hasSignalError /\ (signalDescriptorChanged
                         \/ \E q \in signalMap : <<"descriptor", q>> \in due)
        => signalDescriptorChanged'
           \/ \E q \in signalMap : <<"descriptor", q>> \in due'
  BY <1>3, <1>5
<1>8. \A p \in Indexes : UnreadBy(p, handler, queue, plugged) =>
                           UnreadBy(p, handler', queue', plugged')
  BY <1>3
<1> QED
  BY <1>1, <1>2, <1>3, <1>6, <1>7, <1>8, StillOnItsWay DEF IInv

\* onConnected and onDisconnected validate, or an exception is noted.
LEMMA PortsChangedLosesNothing ==
  ASSUME IInv, NEW p \in Indexes,
         NEW callback \in {<<"connected", p>>, <<"disconnected", p>>},
         PortsChanged(callback)
  PROVE  IInv'
<1>1. /\ BlockInv /\ config' = config
      /\ UNCHANGED <<plugged, descriptor, name>>
  BY DEF IInv, PortsChanged, sdkVars
<1>2. /\ BlockInv'
      /\ "validation" \notin stale' =>
           hasSignalError' = ~Accepts(signalContexts', config)
  BY <1>1, PortsChangedKeeps
<1> QED
  BY <1>1, <1>2, JustValidated DEF IInv

\* A change of a property validates, or a callback of a port will, or an exception
\* is noted.
LEMMA PropertyChangedLosesNothing ==
  ASSUME IInv, NEW set \in Settings, PropertyChanged(set)
  PROVE  IInv'
<1>1. BlockInv /\ config' = set /\ UNCHANGED <<plugged, descriptor, name>>
  BY DEF IInv, PropertyChanged
<1>2. /\ BlockInv' /\ DuePorts' = DuePorts
      /\ DuePorts = {} /\ "validation" \notin stale' =>
           hasSignalError' = ~Accepts(signalContexts', set)
  BY <1>1, PropertyChangedKeeps
<1> QED
  BY <1>1, <1>2, ToCome, JustValidated DEF IInv

\* A turn of the reader validates, or takes away nothing that is still needed, or
\* ends the program.
LEMMA ReaderLoopLosesNothing ==
  ASSUME IInv, NEW skip \in BOOLEAN, ReaderLoop(skip)
  PROVE  IInv'
<1>1. BlockInv /\ NoChangeLost
  BY DEF IInv
<1>2. /\ ~failed /\ stage = "live"
      /\ UNCHANGED <<plugged, descriptor, name, due, config, stage, signalMap>>
  BY DEF ReaderLoop, sdkVars, portVars
<1>3. /\ BlockInv' /\ signalContexts' = signalContexts
      /\ DuePorts = {} /\ ~failed' =>
           \/ hasSignalError' = ~Accepts(signalContexts, config)
           \/ /\ hasSignalError' = hasSignalError
              /\ stale' = stale /\ UNCHANGED flagVars
              /\ \A p \in Indexes : UnreadBy(p, handler, queue, plugged) =>
                                      UnreadBy(p, handler', queue', plugged)
  BY <1>1, ReaderLoopKeeps
<1>4. DuePorts' = DuePorts
  BY <1>2 DEF DuePorts
<1>5. CASE DuePorts # {}
  BY <1>3, <1>4, <1>5, ToCome DEF IInv
<1>6. CASE hasSignalError' = ~Accepts(signalContexts, config)
  <2>1. hasSignalError' = ~Accepts(signalContexts', config)
    BY <1>3, <1>6
  <2> QED
    BY <1>2, <1>3, <2>1, JustValidated DEF IInv
<1>7. CASE /\ ~failed' /\ hasSignalError' = hasSignalError
           /\ stale' = stale /\ UNCHANGED flagVars
           /\ \A p \in Indexes : UnreadBy(p, handler, queue, plugged) =>
                                   UnreadBy(p, handler', queue', plugged)
  <2>1. UNCHANGED <<signalDescriptorChanged, signalAttributeChanged>>
    BY <1>7 DEF flagVars
  <2>2. failed \in BOOLEAN /\ failed' \in BOOLEAN
    BY <1>1, <1>3 DEF BlockInv, TypeOK
  <2>3. failed' = failed
    BY <1>2, <1>7, <2>2
  <2>4. NoChangeLost'
    BY <1>1, <1>2, <1>3, <1>4, <1>7, <2>1, <2>3, StillOnItsWay
  <2> QED
    BY <1>3, <2>4 DEF IInv
<1>8. CASE failed'
  BY <1>3, <1>8 DEF IInv, NoChangeLost, Live
<1> QED
  BY <1>3, <1>5, <1>6, <1>7, <1>8

\* The steps of removed: the block is not live any more.
LEMMA RemovedLosesNothing ==
  ASSUME IInv, RemovedJoin \/ RemovedClear \/ RemovedRelease
  PROVE  IInv'
<1>1. stage' # "live"
  BY DEF RemovedJoin, RemovedClear, RemovedRelease
<1> QED
  BY <1>1, RemovedKeeps DEF IInv, NoChangeLost, Live

\* Steps that change nothing.
LEMMA NothingHappens ==
  ASSUME IInv, UNCHANGED vars
  PROVE  IInv'
<1>1. /\ UNCHANGED <<plugged, descriptor, name, signalContexts, config,
                     hasSignalError, failed, stage, signalMap, stale>>
      /\ UNCHANGED <<due, handler, queue, twice, commonPreviewSignal,
                     ownPreviews, registered, topics, hasSkippedMsg>>
      /\ UNCHANGED <<signalDescriptorChanged, signalAttributeChanged>>
  BY DEF vars, sdkVars, flagVars, portVars, coreVars
<1>2. DuePorts' = DuePorts
  BY <1>1 DEF DuePorts
<1>3. BlockInv /\ NoChangeLost
  BY DEF IInv
<1>4. TypeOK' /\ FreshBy(handler, queue', plugged)
  BY <1>1, <1>3 DEF BlockInv, TypeOK, Queues
<1>5. BlockInv'
  BY <1>1, <1>2, <1>3, <1>4, SameKeeps
<1>6. NoChangeLost'
  BY <1>1, <1>2, <1>3, StillOnItsWay
<1> QED
  BY <1>5, <1>6 DEF IInv

\* Every step keeps the inductive invariant.
LEMMA StepKeeps ==
  ASSUME IInv, [Next]_vars
  PROVE  IInv'
<1>1. CASE Environment
  BY <1>1, ConnectLosesNothing, DisconnectLosesNothing,
     ChangeDescriptorLosesNothing, ChangeDomainLosesNothing,
     RenameLosesNothing, SendPacketLosesNothing
     DEF Environment
<1>2. CASE Callback
  BY <1>2, PortsChangedLosesNothing, CoreEventCallbackLosesNothing
     DEF Callback, OnConnected, OnDisconnected
<1>3. CASE \E set \in Settings : PropertyChanged(set)
  BY <1>3, PropertyChangedLosesNothing
<1>4. CASE \E skip \in BOOLEAN : ReaderLoop(skip)
  BY <1>4, ReaderLoopLosesNothing
<1>5. CASE RemovedJoin \/ RemovedClear \/ RemovedRelease
  BY <1>5, RemovedLosesNothing
<1>6. CASE Gone \/ UNCHANGED vars
  BY <1>6, NothingHappens DEF Gone
<1> QED
  BY <1>1, <1>2, <1>3, <1>4, <1>5, <1>6 DEF Next

-----------------------------------------------------------------------------
(* The theorems. *)

\* What the constructor leaves satisfies the inductive invariant.
LEMMA StartsRight ==
  ASSUME Init
  PROVE  IInv
<1> DEFINE c0 == [index |-> 0, preview |-> "none"]
<1>0. /\ config \in Settings
      /\ plugged = [p \in Indexes |-> NoSignal]
      /\ queue = [p \in Indexes |-> <<>>]
      /\ descriptor \in [Signals -> Kinds]
      /\ name \in [Signals -> Names]
      /\ due = {}
      /\ signalContexts = <<c0>>
      /\ commonPreviewSignal = (config.preview /\ config.single)
      /\ ownPreviews = {} /\ signalMap = {} /\ topics = <<>>
      /\ registered = [s \in Signals |-> 0]
      /\ handler = NoReader
      /\ hasSignalError = FALSE /\ hasSkippedMsg = FALSE
      /\ signalDescriptorChanged = FALSE /\ signalAttributeChanged = FALSE
      /\ stage = "live" /\ failed = FALSE /\ twice = FALSE /\ stale = {}
  BY DEF Init
<1>1. 0 \in Indexes /\ MaxPort \in Nat
  BY PublisherAssumption DEF Indexes
<1>2. /\ signalContexts \in Seq(Context) /\ Len(signalContexts) = 1
      /\ signalContexts[1] = c0 /\ signalContexts # <<>>
  BY <1>0, <1>1 DEF Context
<1>3. NoReader \in Handlers /\ NoReader.ports = <<>>
  BY DEF NoReader, Handlers
<1>4. DuePorts = {}
  BY <1>0 DEF DuePorts
<1>5. TypeOK
  <2>1. signalContexts \in Contexts
    BY <1>2, ContextsAre
  <2>2. config.preview \in BOOLEAN /\ config.single \in BOOLEAN
    BY <1>0, PublisherAssumption DEF SettingsType
  <2>3. queue \in [Indexes -> Seq({"event", "data"})]
    BY <1>0
  <2> HIDE DEF c0
  <2> QED
    BY <1>0, <1>2, <1>3, <2>1, <2>2, <2>3 DEF TypeOK, Handlers
<1>6. ShapedBy(signalContexts, plugged)
  BY <1>0, <1>1, <1>2 DEF ShapedBy
<1>7. SignalsBy(signalContexts, plugged) = <<>>
  <2>1. SignalsBy(signalContexts, plugged) =
          [i \in 1..Len(signalContexts) - 1 |-> plugged[signalContexts[i].index]]
    BY <1>2, <1>6, ShapedSignals
  <2>2. 1..Len(signalContexts) - 1 = {} /\ DOMAIN <<>> = {}
    BY <1>2
  <2>3. [i \in {} |-> plugged[signalContexts[i].index]] = <<>>
    OBVIOUS
  <2> QED
    BY <2>1, <2>2, <2>3
<1>8. Ports
  BY <1>0, <1>2 DEF Ports, AscendingIn, CoveredBy
<1>9. Previews
  <2>1. Elements(signalContexts) = {c0}
    BY <1>0 DEF Elements
  <2>2. Owners({c0}) = {}
    BY DEF Owners
  <2>3. PreviewBy(c0, plugged, config, DuePorts)
    BY <1>0, <1>1 DEF PreviewBy
  <2> HIDE DEF c0
  <2>4. \A i \in 1..Len(signalContexts) : signalContexts[i] = c0
    BY <1>2
  <2>5. ownPreviews = Owners(Elements(signalContexts))
    BY <1>0, <2>1, <2>2
  <2> QED
    BY <1>0, <2>3, <2>4, <2>5 DEF Previews
<1>10. Callbacks
  BY <1>0 DEF Callbacks, CallbacksMatchMap, Once
<1>11. Knows
  <2>1. signalMap = Range(SignalsBy(signalContexts, plugged))
    BY <1>0, <1>7 DEF Range
  <2> QED
    BY <1>0, <1>6, <1>7, <2>1 DEF Knows
<1>12. Queues
  BY <1>0, <1>3, <1>4 DEF Queues, FreshBy, NoReader, Range
<1>13. Readers
  BY <1>2 DEF Readers
<1>14. Accepts(signalContexts, config)
  <2>1. DOMAIN <<>> = {} /\ [i \in {} |-> name[<<>>[i]]] = <<>>
    OBVIOUS
  <2>2. AcceptsBy(<<>>, descriptor, name, config)
    BY <2>1 DEF AcceptsBy, IsInjective
  <2> QED
    BY <1>7, <2>2, AcceptsNow
<1>15. NoChangeLost
  BY <1>0, <1>14 DEF NoChangeLost
<1> QED
  BY <1>5, <1>8, <1>9, <1>10, <1>11, <1>12, <1>13, <1>15 DEF IInv, BlockInv

\* The inductive invariant holds in every reachable state.
LEMMA AlwaysInv == Spec => []IInv
<1>1. Init => IInv
  BY StartsRight
<1>2. IInv /\ [Next]_vars => IInv'
  BY StepKeeps
<1> QED
  BY <1>1, <1>2, PTL DEF Spec

\* The types: registered counts callbacks and never falls below zero, the ports
\* are never without a free one, and no port gets an index out of range
\* (updateCoreEventCallbacks, clearPorts).
THEOREM TypesAreKept == Spec => []TypeOK
<1>1. IInv => TypeOK
  BY DEF IInv, BlockInv
<1> QED
  BY <1>1, AlwaysInv, PTL

\* Whatever order the callbacks of the ports come in, once they are in there is one
\* free port, the last, the indexes of the ports ascend, so that no new port takes
\* the name of another, and the topics are those of the signals in the order of
\* their ports, if no exception has kept updateTopics from being reached
\* (clearPorts, getTopics).
THEOREM PortsStayInOrder == Spec => []PortsInOrder
<1>1. ASSUME IInv
      PROVE  PortsInOrder
  <2>1. Settled =>
          /\ ShapedBy(signalContexts, plugged) /\ AscendingIn(signalContexts)
          /\ ~config.single /\ "topics" \notin stale =>
               topics = SignalsBy(signalContexts, plugged)
    BY <1>1 DEF IInv, BlockInv, Knows, Ports, Settled, Live
  <2>2. SignalsOn(signalContexts) = SignalsBy(signalContexts, plugged)
    BY SignalsNow
  <2> QED
    BY <2>1, <2>2 DEF PortsInOrder, ShapedBy, AscendingIn, Connected
<1> QED
  BY <1>1, AlwaysInv, PTL

\* Once the callbacks are in, the previews that the block offers are those its
\* ports hold, one for all or one for each connected port (updatePortsAndSignals).
THEOREM PreviewsAlwaysMatch == Spec => []PreviewsMatchPorts
<1>1. ASSUME IInv
      PROVE  PreviewsMatchPorts
  <2>1. /\ Previews /\ TypeOK
        /\ Settled => DuePorts = {} /\ ShapedBy(signalContexts, plugged)
    BY <1>1 DEF IInv, BlockInv, Settled, Live, Knows
  <2>2. /\ commonPreviewSignal \in BOOLEAN
        /\ config.preview \in BOOLEAN /\ config.single \in BOOLEAN
        /\ DOMAIN signalContexts = 1..Len(signalContexts)
    BY <2>1, ContextsAre, PublisherAssumption DEF TypeOK, SettingsType
  <2>3. ASSUME Settled, NEW c \in Elements(signalContexts)
        PROVE  c.preview = IF ~Connected(c) \/ ~config.preview THEN "none"
                           ELSE IF config.single THEN "common" ELSE "own"
    <3>1. PICK i \in 1..Len(signalContexts) : c = signalContexts[i]
      BY <2>2 DEF Elements
    <3>2. PreviewBy(c, plugged, config, {})
      BY <2>1, <2>3, <3>1 DEF Previews
    <3> QED
      BY <3>2 DEF PreviewBy, ExpectedBy, Connected
  <2> QED
    BY <2>1, <2>2, <2>3 DEF PreviewsMatchPorts, Previews
<1> QED
  BY <1>1, AlwaysInv, PTL

\* No change of a descriptor, a name, a port or a property is lost: where
\* hasSignalError is not what validation would say, something is on its way that
\* makes the block validate again, unless an exception has left validation or a
\* domain has changed under an error since it last did (coreEventCallback,
\* readerLoop, validateInputPorts).
THEOREM NothingIsLost == Spec => []NoChangeLost
<1>1. IInv => NoChangeLost
  BY DEF IInv
<1> QED
  BY <1>1, AlwaysInv, PTL

\* A Group handler that may process has a reader of exactly the ports with signals,
\* in their order, and a buffer for each, unless an exception has left validation
\* since (createReaderInternal, signalListChanged).
THEOREM ReaderIsCurrent == Spec => []ReaderMatchesPorts
<1>1. IInv => ReaderMatchesPorts
  BY DEF IInv, BlockInv, Readers, ReaderMatchesPorts, Reads
<1> QED
  BY <1>1, AlwaysInv, PTL

\* A signal in signalMap calls back; where no signal was ever on two ports it calls
\* back once, and nothing does after the block has been removed
\* (updateCoreEventCallbacks, removed).
THEOREM CallbacksAreMatched == Spec => []CallbacksMatchMap
<1>1. IInv => CallbacksMatchMap
  BY DEF IInv, BlockInv, Callbacks
<1> QED
  BY <1>1, AlwaysInv, PTL
=============================================================================
