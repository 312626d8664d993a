------------------------ MODULE TopicRegistryProofs ------------------------
(***************************************************************************)
(* Proofs about TopicRegistry, for any blocks, topics and previews and for *)
(* any number of calls.                                                    *)
(***************************************************************************)
EXTENDS TopicRegistry, TLAPS

\* A block that is on its way to the broker has a topic; one that reads its
\* properties has given up the one it had.
TopicOfStep ==
  \A b \in Blocks :
    /\ pc[b] \in Steps \ {"read"} => topic[b] # NoTopic
    /\ pc[b] = "read" => topic[b] = NoTopic

TInv == RegistryTypeOK /\ TopicOfStep

\* After EraseCallback the block's callback is in no entry.
Erased ==
  \A b \in Blocks :
    pc[b] \in {"unsubscribe", "await"} => onMsgArrivedCbs[topic[b]] # b

CInv == CallbacksHaveOwners /\ Erased

\* Two blocks with one topic are remembered as long as one of them has it.
SharedIsMarked ==
  \A t \in Topics : \A b, c \in Having(t) : b # c => t \in shared

\* The blocks that rely on their topic: without error and alone.
Relies(b) ==
  pc[b] = "idle" /\ topic[b] # NoTopic /\ ~subscriptionErr[b] /\ topic[b] \notin shared

Registered ==
  \A b \in Blocks :
    Relies(b) \/ (pc[b] = "subscribe" /\ topic[b] \notin shared)
      => onMsgArrivedCbs[topic[b]] = b

Kept ==
  \A b \in Blocks, t \in Topics : Relies(b) /\ topic[b] = t => Promised(t)

SInv == SharedIsMarked /\ Registered /\ Kept

-----------------------------------------------------------------------------
(* Types. *)

LEMMA CallsTyped ==
  ASSUME TInv, NEW b \in Blocks, NEW t \in Topics \cup {NoTopic}, NEW v \in Previews,
         Create(b, t, v) \/ PropertyChanged(b, t, v)
  PROVE  TInv'
  <1> v \in PreviewType
    BY RegistryAssumption
  <1> USE DEF TInv, RegistryTypeOK, TopicOfStep, Away, Steps, Changes, Call, Goto, Share,
              PreviewType
  <1>1. CASE Create(b, t, v)
    BY <1>1 DEF Create, createSignals, NoSignal, brokerVars
  <1>2. CASE PropertyChanged(b, t, v)
    BY <1>2 DEF PropertyChanged, Begin, brokerVars, signalVars
  <1> QED
    BY <1>1, <1>2

LEMMA StepsTyped ==
  ASSUME TInv, NEW b \in Blocks, Removed(b) \/ Step(b)
  PROVE  TInv'
  <1> USE DEF TInv, RegistryTypeOK, TopicOfStep, Away, Steps, Changes, Goto, Share
  <1>1. CASE EraseCallback(b)
    BY <1>1 DEF EraseCallback, brokerVars, signalVars
  <1>2. CASE Unsubscribe(b)
    <2>1. Request("unsubscribe", topic[b], b) \in Requests
      BY <1>2 DEF Unsubscribe, Request, Requests
    <2> QED
      BY <1>2, <2>1 DEF Unsubscribe, signalVars
  <1>3. CASE Unsubscribed(b)
    BY <1>3 DEF Unsubscribed, brokerVars, signalVars
  <1>4. CASE UnsubscribeFailed(b)
    <2>1. want' \in [Blocks -> [what : Changes, topic : Topics \cup {NoTopic},
                               preview : PreviewType]]
      <3> DEFINE next == IF want[b].what = "removed" THEN "destroyed" ELSE want[b].what
      <3>1. want' = [want EXCEPT ![b] = [want[b] EXCEPT !.what = next]]
        BY <1>4 DEF UnsubscribeFailed
      <3>2. [want[b] EXCEPT !.what = next] \in
              [what : Changes, topic : Topics \cup {NoTopic}, preview : PreviewType]
        OBVIOUS
      <3> HIDE DEF next
      <3> QED
        BY <3>1, <3>2
    <2> QED
      BY <1>4, <2>1 DEF UnsubscribeFailed, brokerVars, signalVars
  <1>5. CASE ReadProperties(b)
    BY <1>5 DEF ReadProperties, brokerVars, reconfigureSignal, createSignals, NoSignal,
                PreviewType
  <1>6. CASE RegisterCallback(b)
    BY <1>6 DEF RegisterCallback, brokerVars, signalVars
  <1>7. CASE Subscribe(b)
    <2>1. Request("subscribe", topic[b], b) \in Requests
      BY <1>7 DEF Subscribe, Request, Requests
    <2> QED
      BY <1>7, <2>1 DEF Subscribe, signalVars
  <1>8. CASE SubscribeFailed(b)
    BY <1>8 DEF SubscribeFailed, brokerVars, signalVars
  <1>9. CASE Removed(b)
    <2>1. [want[b] EXCEPT !.what = "removed"] \in
            [what : Changes, topic : Topics \cup {NoTopic}, preview : PreviewType]
      OBVIOUS
    <2> QED
      BY <1>9, <2>1 DEF Removed, Begin, Call, brokerVars, signalVars
  <1> QED
    BY <1>1, <1>2, <1>3, <1>4, <1>5, <1>6, <1>7, <1>8, <1>9 DEF Step

LEMMA BrokerTyped ==
  ASSUME TInv,
         (\E granted \in BOOLEAN : AnswerSubscribe(granted)) \/ AnswerUnsubscribe
           \/ BrokerForgets
  PROVE  TInv'
  <1> USE DEF TInv, RegistryTypeOK, TopicOfStep, blockVars, signalVars
  <1>1. CASE \E granted \in BOOLEAN : AnswerSubscribe(granted)
    <2> PICK granted \in BOOLEAN : AnswerSubscribe(granted)
      BY <1>1
    <2>1. Head(pending) \in Requests /\ Tail(pending) \in Seq(Requests)
      BY DEF AnswerSubscribe
    <2> QED
      BY <2>1 DEF AnswerSubscribe, Requests
  <1>2. CASE AnswerUnsubscribe
    <2>1. Head(pending) \in Requests /\ Tail(pending) \in Seq(Requests)
      BY <1>2 DEF AnswerUnsubscribe
    <2> QED
      BY <1>2, <2>1 DEF AnswerUnsubscribe, Requests
  <1>3. CASE BrokerForgets
    BY <1>3 DEF BrokerForgets
  <1> QED
    BY <1>1, <1>2, <1>3

THEOREM Typed == Spec => []TInv
  <1>1. Init => TInv
    BY RegistryAssumption DEF Init, TInv, RegistryTypeOK, TopicOfStep, Away, Steps, Changes,
       PreviewType, Off, NoSignal, Requests
  <1>2. TInv /\ [Next]_vars => TInv'
    <2> SUFFICES ASSUME TInv, [Next]_vars PROVE TInv'
      OBVIOUS
    <2>1. CASE Next
      BY <2>1, CallsTyped, StepsTyped, BrokerTyped DEF Next
    <2>2. CASE UNCHANGED vars
      BY <2>2 DEF vars, blockVars, signalVars, brokerVars, TInv, RegistryTypeOK, TopicOfStep
    <2> QED
      BY <2>1, <2>2
  <1> QED
    BY <1>1, <1>2, PTL DEF Spec

\* Every variable of the registry keeps its type (of all of TopicRegistry).
THEOREM TypeCorrect == Spec => []RegistryTypeOK
  <1>1. TInv => RegistryTypeOK
    BY DEF TInv
  <1> QED
    BY <1>1, Typed, PTL

-----------------------------------------------------------------------------
(* Callbacks. *)

\* What the others do to the map leaves a block's own entry to it.
LEMMA CallbacksPreserved ==
  ASSUME TInv, CInv, [Next]_vars
  PROVE  CInv'
  <1> USE DEF CInv, CallbacksHaveOwners, Erased, Having, Away
  <1>1. ASSUME NEW b \in Blocks, NEW t \in Topics \cup {NoTopic}, NEW v \in Previews,
               Create(b, t, v)
        PROVE  CInv'
    BY <1>1 DEF Create, Goto, TInv, RegistryTypeOK, brokerVars
  <1>2. ASSUME NEW b \in Blocks, NEW w, NEW next \in {"read", "gone"}, Begin(b, w, next)
        PROVE  CInv'
    BY <1>2, RegistryAssumption DEF Begin, Goto, TInv, RegistryTypeOK, brokerVars
  <1>3. ASSUME NEW b \in Blocks, Step(b)
        PROVE  CInv'
    <2> USE RegistryAssumption DEF Goto, TInv, TopicOfStep, RegistryTypeOK, Steps
    <2>1. CASE EraseCallback(b)
      BY <2>1 DEF EraseCallback
    <2>2. CASE Unsubscribe(b) \/ SubscribeFailed(b) \/ Subscribe(b)
      BY <2>2 DEF Unsubscribe, Subscribe, SubscribeFailed
    <2>3. CASE Unsubscribed(b)
      BY <2>3 DEF Unsubscribed
    <2>4. CASE UnsubscribeFailed(b)
      BY <2>4 DEF UnsubscribeFailed
    <2>5. CASE ReadProperties(b)
      BY <2>5 DEF ReadProperties
    <2>6. CASE RegisterCallback(b)
      BY <2>6 DEF RegisterCallback
    <2> QED
      BY <1>3, <2>1, <2>2, <2>3, <2>4, <2>5, <2>6 DEF Step
  <1>4. ASSUME UNCHANGED <<blockVars, onMsgArrivedCbs>>
        PROVE  CInv'
    BY <1>4 DEF blockVars
  <1> QED
    BY <1>1, <1>2, <1>3, <1>4
    DEF Next, PropertyChanged, Removed, AnswerSubscribe, AnswerUnsubscribe, BrokerForgets,
        vars

\* Every callback in the client's map belongs to a block that is there and has
\* the topic (setMessageArrivedCb and unsubscribeFromTopic).
THEOREM CallbacksOwned == Spec => []CallbacksHaveOwners
  <1>1. Init => CInv
    BY DEF Init, CInv, CallbacksHaveOwners, Erased
  <1>2. TInv /\ CInv /\ [Next]_vars => CInv'
    BY CallbacksPreserved
  <1>3. CInv => CallbacksHaveOwners
    BY DEF CInv
  <1> QED
    BY <1>1, <1>2, <1>3, Typed, PTL DEF Spec

-----------------------------------------------------------------------------
(* The preview. *)

LEMMA Reconfigured ==
  ASSUME NEW v \in PreviewType, NEW w \in PreviewType
  PROVE  reconfigureSignal(createSignals(v), w) = createSignals(w)
  <1>1. CASE ~w.enabled
    BY <1>1 DEF reconfigureSignal, createSignals
  <1>2. CASE ~v.enabled
    <2>1. ~createSignals(v).there
      BY <1>2 DEF createSignals, NoSignal
    <2> QED
      BY <2>1 DEF reconfigureSignal, createSignals
  <1>3. CASE v.enabled /\ w.enabled
    <2>1. createSignals(v) = [there |-> TRUE, string |-> v.string, domain |-> v.stamped]
      BY <1>3 DEF createSignals
    <2>2. createSignals(w) = [there |-> TRUE, string |-> w.string, domain |-> w.stamped]
      BY <1>3 DEF createSignals
    <2>3. reconfigureSignal(createSignals(v), w)
            = [[there |-> TRUE, string |-> v.string, domain |-> v.stamped]
                 EXCEPT !.string = w.string, !.domain = w.stamped]
      BY <1>3, <2>1 DEF reconfigureSignal
    <2> QED
      BY <2>2, <2>3
  <1> QED
    BY <1>1, <1>2, <1>3 DEF PreviewType

\* The preview is the one its members ask for, at any time, and the members are
\* what the properties ask for once they have been read.
MembersShown ==
  \A b \in Blocks :
    pc[b] \notin Away => outputSignal[b] = createSignals(preview[b])

MembersInForce ==
  \A b \in Blocks :
    /\ pc[b] \in {"register", "subscribe"} => preview[b] = want[b].preview
    /\ pc[b] = "idle" =>
         \/ preview[b] = want[b].preview
         \/ subscriptionErr[b] /\ topic[b] # NoTopic

LEMMA MembersStayShown ==
  ASSUME TInv, MembersShown, [Next]_vars
  PROVE  MembersShown'
  <1> USE DEF MembersShown, Away, Goto, TInv, RegistryTypeOK
  <1>1. ASSUME NEW b \in Blocks, NEW t \in Topics \cup {NoTopic}, NEW v \in Previews,
               Create(b, t, v)
        PROVE  MembersShown'
    BY <1>1 DEF Create
  <1>2. ASSUME NEW b \in Blocks, ReadProperties(b)
        PROVE  MembersShown'
    <2>1. reconfigureSignal(outputSignal[b], want[b].preview)
            = createSignals(want[b].preview)
      BY <1>2, Reconfigured DEF ReadProperties
    <2> QED
      BY <1>2, <2>1 DEF ReadProperties
  <1>3. ASSUME NEW b \in Blocks, NEW w, NEW next \in {"read", "gone"}, Begin(b, w, next)
        PROVE  MembersShown'
    BY <1>3 DEF Begin, signalVars
  <1>4. ASSUME NEW b \in Blocks, Step(b), ~ReadProperties(b)
        PROVE  MembersShown'
    BY <1>4 DEF Step, EraseCallback, Unsubscribe, Unsubscribed, UnsubscribeFailed,
                RegisterCallback, Subscribe, SubscribeFailed, signalVars
  <1>5. ASSUME UNCHANGED <<blockVars, signalVars>>
        PROVE  MembersShown'
    BY <1>5 DEF blockVars, signalVars
  <1> QED
    BY <1>1, <1>2, <1>3, <1>4, <1>5
    DEF Next, PropertyChanged, Removed, AnswerSubscribe, AnswerUnsubscribe,
        BrokerForgets, vars

LEMMA MembersStayInForce ==
  ASSUME TInv, MembersInForce, [Next]_vars
  PROVE  MembersInForce'
  <1> USE DEF MembersInForce, Away, Goto, TInv, TopicOfStep, RegistryTypeOK
  <1>1. ASSUME NEW b \in Blocks, NEW t \in Topics \cup {NoTopic}, NEW v \in Previews,
               Create(b, t, v)
        PROVE  MembersInForce'
    BY <1>1, RegistryAssumption DEF Create
  <1>2. ASSUME NEW b \in Blocks, NEW w, NEW next \in {"read", "gone"}, Begin(b, w, next)
        PROVE  MembersInForce'
    BY <1>2 DEF Begin, signalVars
  <1>3. ASSUME NEW b \in Blocks, Step(b)
        PROVE  MembersInForce'
    <2> USE RegistryAssumption DEF Steps
    <2>1. CASE EraseCallback(b) \/ Unsubscribe(b)
      BY <2>1 DEF EraseCallback, Unsubscribe, signalVars
    <2>2. CASE Unsubscribed(b)
      BY <2>2 DEF Unsubscribed, signalVars
    <2>3. CASE UnsubscribeFailed(b)
      BY <2>3 DEF UnsubscribeFailed, signalVars
    <2>4. CASE ReadProperties(b)
      BY <2>4 DEF ReadProperties
    <2>5. CASE RegisterCallback(b) \/ Subscribe(b) \/ SubscribeFailed(b)
      BY <2>5 DEF RegisterCallback, Subscribe, SubscribeFailed, signalVars
    <2> QED
      BY <1>3, <2>1, <2>2, <2>3, <2>4, <2>5 DEF Step
  <1>4. ASSUME UNCHANGED <<blockVars, signalVars>>
        PROVE  MembersInForce'
    BY <1>4 DEF blockVars, signalVars
  <1> QED
    BY <1>1, <1>2, <1>3, <1>4
    DEF Next, PropertyChanged, Removed, AnswerSubscribe, AnswerUnsubscribe,
        BrokerForgets, vars

\* Between calls the preview is the one the values of the properties ask for, or
\* the block shows an error with the topic it kept (propertyChanged).
THEOREM PreviewAsAsked == Spec => []PreviewFollowsProperties
  <1>1. Init => MembersShown /\ MembersInForce
    BY DEF Init, MembersShown, MembersInForce, Away
  <1>2. TInv /\ MembersShown /\ [Next]_vars => MembersShown'
    BY MembersStayShown
  <1>3. TInv /\ MembersInForce /\ [Next]_vars => MembersInForce'
    BY MembersStayInForce
  <1>4. MembersShown /\ MembersInForce => PreviewFollowsProperties
    BY DEF MembersShown, MembersInForce, PreviewFollowsProperties, Away
  <1> QED
    BY <1>1, <1>2, <1>3, <1>4, Typed, PTL DEF Spec

-----------------------------------------------------------------------------
(* Service. *)

LEMMA PromisedByRequest ==
  ASSUME pending \in Seq(Requests), NEW r \in Requests, NEW t \in Topics,
         pending' = Append(pending, r), UNCHANGED <<subscribed, unheard>>,
         \/ r.cmd = "subscribe" /\ r.topic = t
         \/ r.topic # t /\ Promised(t)
  PROVE  Promised(t)'
  <1> DEFINE n == Len(pending)
  <1>1. /\ n \in Nat /\ Len(pending') = n + 1 /\ pending'[n + 1] = r
        /\ \A i \in 1..n : pending'[i] = pending[i]
        /\ DOMAIN pending = 1..n /\ DOMAIN pending' = 1..(n + 1)
    OBVIOUS
  <1>2. CASE r.cmd = "subscribe" /\ r.topic = t
    BY <1>1, <1>2 DEF Promised
  <1>3. CASE r.topic # t /\ Promised(t)
    <2>1. ASSUME NEW i \in 1..n, pending[i].cmd = "subscribe", pending[i].topic = t,
                 \A j \in 1..n : j > i => pending[j].topic # t
          PROVE  Promised(t)'
      BY <1>1, <1>3, <2>1 DEF Promised
    <2>2. ASSUME \A i \in 1..n : pending[i].topic # t, t \in subscribed \cup unheard
          PROVE  Promised(t)'
      BY <1>1, <1>3, <2>2 DEF Promised
    <2> QED
      BY <1>1, <1>3, <2>1, <2>2 DEF Promised
  <1> QED
    BY <1>2, <1>3

LEMMA PromisedByAnswer ==
  ASSUME TInv, NEW t \in Topics, Promised(t),
         (\E granted \in BOOLEAN : AnswerSubscribe(granted)) \/ AnswerUnsubscribe
  PROVE  Promised(t)'
  <1> DEFINE n == Len(pending)
             h == Head(pending)
  <1>1. /\ n \in Nat \ {0} /\ Len(pending') = n - 1 /\ h = pending[1]
        /\ \A i \in 1..(n - 1) : pending'[i] = pending[i + 1]
        /\ DOMAIN pending = 1..n /\ DOMAIN pending' = 1..(n - 1)
    <2>1. pending \in Seq(Requests) /\ pending # <<>> /\ pending' = Tail(pending)
      BY DEF TInv, RegistryTypeOK, AnswerSubscribe, AnswerUnsubscribe
    <2> QED
      BY <2>1
  <1>2. /\ h.cmd = "subscribe" =>
             \/ subscribed' = subscribed \cup {h.topic} /\ unheard' = unheard \ {h.topic}
             \/ subscribed' = subscribed /\ unheard' = unheard \cup {h.topic}
        /\ h.cmd # "subscribe" =>
             subscribed' = subscribed \ {h.topic} /\ unheard' = unheard
    BY DEF AnswerSubscribe, AnswerUnsubscribe
  <1> HIDE DEF h, n
  <1>3. ASSUME NEW i \in 2..n, pending[i].cmd = "subscribe", pending[i].topic = t,
               \A j \in 1..n : j > i => pending[j].topic # t
        PROVE  Promised(t)'
    <2>1. /\ i - 1 \in DOMAIN pending' /\ pending'[i - 1] = pending[i]
          /\ \A j \in DOMAIN pending' : j > i - 1 => pending'[j].topic # t
      BY <1>1, <1>3
    <2> QED
      BY <1>3, <2>1 DEF Promised
  <1>4. ASSUME \A j \in 1..n : j > 1 => pending[j].topic # t,
               t \in subscribed' \cup unheard'
        PROVE  Promised(t)'
    BY <1>1, <1>4 DEF Promised
  <1>5. CASE \E i \in 1..n : /\ pending[i].cmd = "subscribe" /\ pending[i].topic = t
                             /\ \A j \in 1..n : j > i => pending[j].topic # t
    <2> PICK i \in 1..n : /\ pending[i].cmd = "subscribe" /\ pending[i].topic = t
                          /\ \A j \in 1..n : j > i => pending[j].topic # t
      BY <1>5
    <2>1. CASE i = 1
      BY <1>1, <1>2, <1>4, <2>1
    <2>2. CASE i \in 2..n
      BY <1>3, <2>2
    <2> QED
      BY <1>1, <2>1, <2>2
  <1>6. CASE (\A i \in 1..n : pending[i].topic # t) /\ t \in subscribed \cup unheard
    <2>1. t \in subscribed' \cup unheard'
      BY <1>1, <1>2, <1>6
    <2> QED
      BY <1>1, <1>4, <1>6, <2>1
  <1> QED
    BY <1>1, <1>5, <1>6 DEF Promised

\* A step that rewrites "shared" keeps the marks, and lets no block rely on a
\* topic that did not before.
LEMMA SharePreserves ==
  ASSUME TInv, TInv', SInv, Share, UNCHANGED <<onMsgArrivedCbs, brokerVars>>,
         \A c \in Blocks :
           (pc'[c] = "idle" /\ topic'[c] # NoTopic /\ ~subscriptionErr'[c])
             \/ pc'[c] = "subscribe"
           => /\ pc'[c] = pc[c] /\ topic'[c] = topic[c]
              /\ subscriptionErr'[c] = subscriptionErr[c]
  PROVE  SInv'
  <1>1. SharedIsMarked'
    BY DEF Share, SharedIsMarked
  <1>2. ASSUME NEW c \in Blocks, pc'[c] \in {"idle", "subscribe"}, topic'[c] # NoTopic,
               topic'[c] \notin shared'
        PROVE  topic'[c] \notin shared
    <2>1. topic'[c] \in Topics
      BY <1>2 DEF TInv, RegistryTypeOK
    <2>2. PICK t \in Topics : topic'[c] = t
      BY <2>1
    <2>3. c \in Having(t)'
      BY <1>2, <2>2 DEF Having, Away
    <2> QED
      BY <1>2, <2>2, <2>3 DEF Share
  <1>3. \A c \in Blocks : Relies(c)' => Relies(c)
    BY <1>2 DEF Relies
  <1>4. Registered'
    <2> SUFFICES ASSUME NEW c \in Blocks,
                        Relies(c)' \/ (pc'[c] = "subscribe" /\ topic'[c] \notin shared')
                 PROVE  onMsgArrivedCbs'[topic'[c]] = c
      BY DEF Registered
    <2>1. CASE Relies(c)'
      BY <1>3, <2>1 DEF SInv, Registered, Relies
    <2>2. CASE pc'[c] = "subscribe" /\ topic'[c] \notin shared'
      <3>1. topic'[c] # NoTopic
        BY <2>2 DEF TInv, TopicOfStep, Steps
      <3> QED
        BY <1>2, <2>2, <3>1 DEF SInv, Registered
    <2> QED
      BY <2>1, <2>2
  <1>5. Kept'
    <2> SUFFICES ASSUME NEW c \in Blocks, NEW t \in Topics, Relies(c)', topic'[c] = t
                 PROVE  Promised(t)'
      BY DEF Kept
    <2>1. Promised(t)
      BY <1>3 DEF SInv, Kept, Relies
    <2> QED
      BY <2>1 DEF Promised, brokerVars
  <1> QED
    BY <1>1, <1>4, <1>5 DEF SInv

LEMMA ServicePreserved ==
  ASSUME TInv, TInv', CInv, SInv, [Next]_vars
  PROVE  SInv'
  <1> USE RegistryAssumption
  <1>1. ASSUME NEW b \in Blocks, NEW t \in Topics \cup {NoTopic}, NEW v \in Previews,
               Create(b, t, v)
        PROVE  SInv'
    BY <1>1, SharePreserves DEF Create, Goto, TInv, RegistryTypeOK
  <1>2. ASSUME NEW b \in Blocks, NEW w, NEW next \in {"read", "gone"}, Begin(b, w, next)
        PROVE  SInv'
    BY <1>2, SharePreserves DEF Begin, Goto, TInv, RegistryTypeOK
  <1>3. ASSUME NEW b \in Blocks,
               Unsubscribed(b) \/ UnsubscribeFailed(b) \/ ReadProperties(b)
        PROVE  SInv'
    <2>1. Share /\ UNCHANGED <<onMsgArrivedCbs, brokerVars>>
      BY <1>3 DEF Unsubscribed, UnsubscribeFailed, ReadProperties
    <2>2. ASSUME NEW c \in Blocks,
                 (pc'[c] = "idle" /\ topic'[c] # NoTopic /\ ~subscriptionErr'[c])
                   \/ pc'[c] = "subscribe"
          PROVE  c # b
      BY <1>3, <2>2 DEF Unsubscribed, UnsubscribeFailed, ReadProperties, Goto, TInv,
                        RegistryTypeOK
    <2>3. \A c \in Blocks : c # b =>
            /\ pc'[c] = pc[c] /\ topic'[c] = topic[c]
            /\ subscriptionErr'[c] = subscriptionErr[c]
      BY <1>3 DEF Unsubscribed, UnsubscribeFailed, ReadProperties, Goto, TInv,
                  RegistryTypeOK
    <2> QED
      BY <2>1, <2>2, <2>3, SharePreserves
  <1>4. ASSUME NEW b \in Blocks, EraseCallback(b) \/ RegisterCallback(b)
        PROVE  SInv'
    <2>1. SharedIsMarked'
      BY <1>4 DEF SInv, SharedIsMarked, Having, EraseCallback, RegisterCallback, Goto,
                  TInv, RegistryTypeOK, Away
    <2>2. Registered'
      <3> SUFFICES ASSUME NEW c \in Blocks,
                          Relies(c)' \/ (pc'[c] = "subscribe" /\ topic'[c] \notin shared')
                   PROVE  onMsgArrivedCbs'[topic'[c]] = c
        BY DEF Registered
      <3>1. /\ topic' = topic /\ shared' = shared /\ subscriptionErr' = subscriptionErr
            /\ topic[b] \in Topics /\ topic[c] \in Topics
            /\ topic[c] \notin shared
        BY <1>4 DEF EraseCallback, RegisterCallback, Relies, TInv, TopicOfStep, Steps,
                    RegistryTypeOK
      <3>2. CASE c = b
        <4>1. RegisterCallback(b)
          BY <1>4, <3>2 DEF EraseCallback, Relies, Goto, TInv, RegistryTypeOK
        <4>2. onMsgArrivedCbs[topic[b]] \in {Nobody, b}
          <5>1. PICK t \in Topics : topic[b] = t
            BY <3>1
          <5>2. b \in Having(t) /\ t \notin shared
            BY <3>1, <3>2, <4>1, <5>1 DEF RegisterCallback, Having, Away
          <5>3. onMsgArrivedCbs[t] # Nobody => onMsgArrivedCbs[t] \in Having(t)
            BY DEF CInv, CallbacksHaveOwners
          <5> QED
            BY <5>1, <5>2, <5>3 DEF SInv, SharedIsMarked
        <4> QED
          BY <3>1, <3>2, <4>1, <4>2 DEF RegisterCallback, TInv, RegistryTypeOK
      <3>3. CASE c # b
        <4>1. pc'[c] = pc[c]
          BY <1>4, <3>3 DEF EraseCallback, RegisterCallback, Goto, TInv, RegistryTypeOK
        <4>2. onMsgArrivedCbs[topic[c]] = c
          BY <3>1, <4>1 DEF SInv, Registered, Relies
        <4>3. topic[b] # topic[c]
          BY <1>4, <3>1, <3>3, <4>1
          DEF EraseCallback, RegisterCallback, Relies, SInv, SharedIsMarked, Having, Away
        <4> QED
          BY <1>4, <3>1, <4>2, <4>3 DEF EraseCallback, RegisterCallback, TInv,
                                        RegistryTypeOK
      <3> QED
        BY <3>2, <3>3
    <2>3. Kept'
      <3> SUFFICES ASSUME NEW c \in Blocks, NEW t \in Topics, Relies(c)', topic'[c] = t
                   PROVE  Promised(t)'
        BY DEF Kept
      <3>1. Relies(c) /\ topic[c] = t
        BY <1>4 DEF EraseCallback, RegisterCallback, Goto, TInv, RegistryTypeOK, Relies
      <3> QED
        BY <1>4, <3>1 DEF SInv, Kept, Promised, EraseCallback, RegisterCallback, brokerVars
    <2> QED
      BY <2>1, <2>2, <2>3 DEF SInv
  <1>5. ASSUME NEW b \in Blocks, Unsubscribe(b) \/ Subscribe(b) \/ SubscribeFailed(b)
        PROVE  SInv'
    <2>1. SharedIsMarked'
      BY <1>5 DEF SInv, SharedIsMarked, Having, Unsubscribe, Subscribe, SubscribeFailed,
                  Goto, TInv, RegistryTypeOK, Away
    <2>2. Registered'
      BY <1>5 DEF SInv, Registered, Relies, Unsubscribe, Subscribe, SubscribeFailed, Goto,
                  TInv, RegistryTypeOK
    <2>3. Kept'
      <3> SUFFICES ASSUME NEW c \in Blocks, NEW t \in Topics, Relies(c)', topic'[c] = t
                   PROVE  Promised(t)'
        BY DEF Kept
      <3>1. topic[c] = t /\ topic[b] \in Topics
        BY <1>5 DEF Unsubscribe, Subscribe, SubscribeFailed, Relies, TInv, RegistryTypeOK,
                    TopicOfStep, Steps
      <3>2. CASE SubscribeFailed(b)
        <4>1. Relies(c)
          BY <3>2 DEF SubscribeFailed, Relies, Goto, TInv, RegistryTypeOK
        <4> QED
          BY <3>1, <3>2, <4>1 DEF SubscribeFailed, SInv, Kept, Promised, brokerVars
      <3>3. CASE c = b /\ (Unsubscribe(b) \/ Subscribe(b))
        <4>1. Subscribe(b)
          BY <3>3 DEF Unsubscribe, Relies, Goto, TInv, RegistryTypeOK
        <4>2. PICK r \in Requests :
                r.cmd = "subscribe" /\ r.topic = t /\ pending' = Append(pending, r)
          BY <3>1, <3>3, <4>1 DEF Subscribe, Request, Requests
        <4> QED
          BY <4>1, <4>2, PromisedByRequest DEF Subscribe, TInv, RegistryTypeOK
      <3>4. CASE c # b /\ (Unsubscribe(b) \/ Subscribe(b))
        <4>1. Relies(c)
          BY <3>4 DEF Unsubscribe, Subscribe, Relies, Goto, TInv, RegistryTypeOK
        <4>2. topic[b] # t
          BY <3>1, <3>4, <4>1 DEF Unsubscribe, Subscribe, Relies, SInv, SharedIsMarked,
                                  Having, Away
        <4>3. PICK r \in Requests : r.topic = topic[b] /\ pending' = Append(pending, r)
          BY <3>1, <3>4 DEF Unsubscribe, Subscribe, Request, Requests
        <4>4. Promised(t) /\ UNCHANGED <<subscribed, unheard>>
          BY <3>1, <3>4, <4>1 DEF Unsubscribe, Subscribe, SInv, Kept
        <4> QED
          BY <4>2, <4>3, <4>4, PromisedByRequest DEF TInv, RegistryTypeOK
      <3> QED
        BY <1>5, <3>2, <3>3, <3>4
    <2> QED
      BY <2>1, <2>2, <2>3 DEF SInv
  <1>6. ASSUME UNCHANGED <<blockVars, onMsgArrivedCbs, shared>>,
               \A t \in Topics : Promised(t) => Promised(t)'
        PROVE  SInv'
    BY <1>6 DEF SInv, SharedIsMarked, Registered, Kept, Relies, Having, blockVars, TInv,
                RegistryTypeOK
  <1>7. CASE (\E granted \in BOOLEAN : AnswerSubscribe(granted)) \/ AnswerUnsubscribe
    <2>1. UNCHANGED <<blockVars, onMsgArrivedCbs, shared>>
      BY <1>7 DEF AnswerSubscribe, AnswerUnsubscribe
    <2> QED
      BY <1>6, <1>7, <2>1, PromisedByAnswer
  <1>8. CASE BrokerForgets \/ UNCHANGED vars
    BY <1>6, <1>8 DEF BrokerForgets, Promised, vars, brokerVars
  <1> QED
    BY <1>1, <1>2, <1>3, <1>4, <1>5, <1>7, <1>8 DEF Next, PropertyChanged, Removed, Step

\* A block alone on its topic that reports no error has its callback in the map
\* and its topic subscribed, or requested, or refused without its being told
\* (subscribeToTopic and unsubscribeFromTopic, answers that come too late).
THEOREM UnsharedAreServed == Spec => []Served
  <1>1. Init => SInv
    BY DEF Init, SInv, SharedIsMarked, Registered, Kept, Relies, Having, Away
  <1>2. TInv /\ TInv' /\ CInv /\ SInv /\ [Next]_vars => SInv'
    BY ServicePreserved
  <1>3. Init => CInv
    BY DEF Init, CInv, CallbacksHaveOwners, Erased
  <1>4. TInv /\ CInv /\ [Next]_vars => CInv'
    BY CallbacksPreserved
  <1>5. TInv /\ SInv => Served
    BY DEF SInv, Registered, Kept, Relies, Served, TInv, RegistryTypeOK
  <1> QED
    BY <1>1, <1>2, <1>3, <1>4, <1>5, Typed, PTL DEF Spec
=============================================================================
