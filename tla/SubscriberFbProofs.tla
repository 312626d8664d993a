------------------------- MODULE SubscriberFbProofs -------------------------
(***************************************************************************)
(* Proofs about SubscriberFb, for any sets of topics, intervals and        *)
(* decoders and any bounds. One inductive invariant, IInv, carries the     *)
(* safety properties; its parts are                                        *)
(*   Control    which step belongs to which call,                          *)
(*   Mutex      who holds processingMutex,                                 *)
(*   Callbacks  when the client can hold or run a callback of the block,   *)
(*   Thread     when the processing thread exists,                         *)
(*   Batch      when the processing thread has messages in hand,           *)
(*   Applied    what a call has applied when it reaches a step,            *)
(*   Interval   what a thread that waits knows of the interval.            *)
(***************************************************************************)
EXTENDS SubscriberFb, SequenceTheorems, TLAPS

Control ==
  /\ userPc \in {"lock", "read", "force"} => userOp = "change"
  /\ userPc = "start" => userOp = "construct"
  /\ userPc \in {"register", "subscribe", "status"} =>
       userOp \in {"construct", "change"}
  /\ userPc \in {"erase", "unsubscribe"} =>
       userOp \in {"change", "remove", "destroy"}
  /\ userPc = "notify" => userOp \in {"change", "remove"}
  /\ userPc \in {"join", "clear"} => userOp = "remove"
  /\ userPc = "gone" => userOp = "destroy"
  /\ userPc = "push" => userOp = "add"
  /\ userPc = "release" => userOp = "drop"
  /\ userPc = "idle" => userOp \in {"construct", "change", "add", "drop"}

\* The steps of a property change that run with processingMutex.
Locked == userOp = "change" /\ userPc \notin {"idle", "lock"}

Mutex ==
  /\ processingMutex = "proc" <=> procPc = "dispatch"
  /\ processingMutex = "user" <=> Locked

Callbacks ==
  /\ CallbackFollowsTopic
  /\ registered = {} => delivering = {}
  /\ userPc \in {"unsubscribe", "read", "clear", "gone"} => registered = {}
  /\ userOp = "destroy" => registered = {}

\* The processing thread is not born before the constructor starts it, and
\* has ended when the removal passes the join.
Thread ==
  /\ userOp = "construct" /\ userPc \in {"register", "subscribe", "start"} =>
       procPc = "unborn"
  /\ \/ userOp = "destroy"
     \/ userOp = "remove" /\ userPc \in {"erase", "unsubscribe", "clear"}
     => procPc = "done"

\* Between two batches the local queue is empty.
Batch ==
  procPc \notin {"unforce", "lock", "dispatch"} => localQueue = <<>>

\* The block has what the user asked for last.
HasWanted ==
  /\ topicForSubscribing = want.topic
  /\ dataIntervalMs = want.interval

Subscribed == HasWanted /\ topicForSubscribing \in registered

Applied ==
  /\ userPc \in {"register", "subscribe"} => HasWanted
  /\ userPc = "subscribe" => topicForSubscribing \in registered
  /\ /\ \/ userPc \in {"idle", "push", "release", "start", "status", "force"}
        \/ userPc = "notify" /\ userOp = "change"
     /\ statuses["subscription"] = Ok
     => Subscribed

\* StaleIntervalIsForced, with the call that is about to set the flag.
Interval ==
  /\ userOp = "construct" => interval = dataIntervalMs
  /\ procPc \in {"check", "sleepy", "asleep"} /\ interval # dataIntervalMs =>
       \/ forceProcessing
       \/ /\ userOp = "change"
          /\ userPc \in {"register", "subscribe", "status", "force"}

Protocol ==
  /\ Control /\ Mutex /\ Callbacks /\ Thread /\ Batch /\ Applied /\ Interval
  /\ NestedAreAlive

IInv == TypeOK /\ Protocol

-----------------------------------------------------------------------------
(* Types.                                                                  *)

\* What updateStatuses shows is a display.
LEMMA ComposedType ==
  ASSUME NEW s \in Entries
  PROVE  Composed(s) \in Shown
  BY DEF Composed, Shown, Entries, EntryNames

\* The processing thread takes the whole queue, or leaves it and ends.
LEMMA SwapQueues ==
  ProcSwap =>
    \/ /\ localQueue' = messageQueue /\ messageQueue' = <<>>
       /\ procPc' = "unforce"
    \/ /\ localQueue' = localQueue /\ messageQueue' = messageQueue
       /\ procPc' = "done"
  BY DEF ProcSwap, ProcGoto

\* A dispatch consumes the oldest message, and gives it out if it is relevant.
LEMMA DispatchQueue ==
  ProcDispatch =>
    /\ localQueue # <<>> /\ localQueue' = Tail(localQueue)
    /\ out' = IF Head(localQueue).topic = topicForSubscribing
                THEN Append(out, [msg |-> Head(localQueue),
                                  to |-> nestedFunctionBlocks])
                ELSE out
  BY DEF ProcDispatch

LEMMA DispatchTypes ==
  ASSUME TypeOK, ProcDispatch
  PROVE  /\ localQueue' \in Seq(Msgs)
         /\ out' \in Seq([msg : Msgs, to : SUBSET Decoders])
<1>1. /\ localQueue \in Seq(Msgs) /\ localQueue # <<>>
      /\ localQueue' = Tail(localQueue)
  BY DispatchQueue DEF TypeOK
<1>2. Head(localQueue) \in Msgs /\ localQueue' \in Seq(Msgs)
  BY <1>1, HeadTailProperties
<1>3. [msg |-> Head(localQueue), to |-> nestedFunctionBlocks]
        \in [msg : Msgs, to : SUBSET Decoders]
  BY <1>2 DEF TypeOK
<1>4. Append(out, [msg |-> Head(localQueue), to |-> nestedFunctionBlocks])
        \in Seq([msg : Msgs, to : SUBSET Decoders])
  BY <1>3, AppendProperties DEF TypeOK
<1>5. out' \in Seq([msg : Msgs, to : SUBSET Decoders])
  BY <1>4, DispatchQueue, Zenon DEF TypeOK
<1> QED
  BY <1>2, <1>5

\* The first display of every construction is well typed.
LEMMA TypeInit == Init => TypeOK
<1> SUFFICES ASSUME Init PROVE TypeOK
  OBVIOUS
<1>1. /\ want \in Wants
      /\ want.topic \in TopicOrNone /\ want.interval \in Intervals
  BY DEF Init, Wants
<1>2. statuses \in Entries /\ componentStatus \in Shown
  BY DEF Init, Shown, Entries, EntryNames, EntryValues
<1>3. localQueue \in Seq(Msgs) /\ messageQueue \in Seq(Msgs)
  BY DEF Init
<1>4. out \in Seq([msg : Msgs, to : SUBSET Decoders])
  BY DEF Init
<1>5. /\ userPc \in UserPcs /\ userOp \in UserOps /\ calls \in 0..MaxCalls
      /\ delivering \in SUBSET Msgs /\ arrived \in 0..MaxMsgs
  BY SubscriberAssumption DEF Init, UserPcs, UserOps, SubscriberAssumption
<1>6. /\ procPc \in ProcPcs
      /\ interval \in Intervals /\ dataIntervalMs \in Intervals
      /\ seenTopic \in TopicOrNone /\ topicForSubscribing \in TopicOrNone
  BY <1>1 DEF Init, ProcPcs, TopicOrNone
<1>7. /\ hasRelevantMessage \in BOOLEAN /\ processingRunning \in BOOLEAN
      /\ forceProcessing \in BOOLEAN /\ heard \in BOOLEAN
      /\ processingMutex \in {"none", "user", "proc"}
      /\ registered \in SUBSET Topics
      /\ nestedFunctionBlocks \in SUBSET Decoders
      /\ functionBlocks \in SUBSET Decoders
  BY DEF Init
<1> QED
  BY <1>1, <1>2, <1>3, <1>4, <1>5, <1>6, <1>7 DEF TypeOK

\* Every step keeps the types.
LEMMA TypeStep == TypeOK /\ [Next]_vars => TypeOK'
<1> SUFFICES ASSUME TypeOK, [Next]_vars PROVE TypeOK'
  OBVIOUS
<1> USE DEF vars, userVars, call, recvVars, procLocals, topicVars, nestVars,
            flagVars, statusVars, notProc, notUser, notProcPc, ProcGoto,
            UserGoto, TypeOK, UserPcs, UserOps, ProcPcs, Wants, TopicOrNone
<1>1. ASSUME NEW t \in Topics, OnMsgArrived(t) PROVE TypeOK'
  BY <1>1, SubscriberAssumption DEF OnMsgArrived, CbMtxFree, Msgs,
    SubscriberAssumption
<1>2. CASE ProcessMessage
  BY <1>2 DEF ProcessMessage, QueueMutexFree, Notify
<1>3. CASE ProcLoop
  BY <1>3 DEF ProcLoop
<1>4. CASE ProcCheck
  BY <1>4 DEF ProcCheck, MustProcess
<1>5. CASE ProcSleep
  BY <1>5 DEF ProcSleep
<1>6. CASE ProcTimeout
  BY <1>6 DEF ProcTimeout
<1>7. CASE ProcSwap
  <2>1. <<>> \in Seq(Msgs)
    OBVIOUS
  <2>2. localQueue' \in Seq(Msgs) /\ messageQueue' \in Seq(Msgs)
    BY <1>7, <2>1, SwapQueues
  <2> QED
    BY <1>7, <2>2 DEF ProcSwap
<1>8. CASE ProcUnforce
  <2>1. procPc' \in ProcPcs
    BY <1>8 DEF ProcUnforce
  <2>2. hasRelevantMessage' \in BOOLEAN /\ forceProcessing' \in BOOLEAN
    BY <1>8 DEF ProcUnforce
  <2> QED
    BY <1>8, <2>1, <2>2 DEF ProcUnforce
<1>9. CASE ProcLock
  BY <1>9 DEF ProcLock
<1>10. CASE ProcDispatch
  <2>1. /\ localQueue' \in Seq(Msgs)
        /\ out' \in Seq([msg : Msgs, to : SUBSET Decoders])
    BY <1>10, DispatchTypes
  <2>2. statuses' \in Entries
    BY <1>10 DEF ProcDispatch, Entries, EntryNames, EntryValues
  <2>3. heard' \in BOOLEAN /\ hasRelevantMessage' \in BOOLEAN
    BY <1>10 DEF ProcDispatch
  <2> QED
    BY <1>10, <2>1, <2>2, <2>3 DEF ProcDispatch
<1>11. CASE ProcUnlock
  BY <1>11 DEF ProcUnlock
<1>12. CASE ProcReport
  BY <1>12 DEF ProcReport, Entries, EntryNames, EntryValues
<1>13. CASE ProcWait
  BY <1>13 DEF ProcWait, Entries, EntryNames, EntryValues
<1>14. CASE ProcPublish
  BY <1>14, ComposedType DEF ProcPublish
<1>15. CASE ProcSpurious
  BY <1>15 DEF ProcSpurious
<1>16. CASE UserLock
  BY <1>16 DEF UserLock
<1>17. CASE SkipUnsubscribe
  BY <1>17 DEF SkipUnsubscribe, AfterUnsubscribe
<1>18. CASE EraseCallback
  BY <1>18 DEF EraseCallback, CbMtxFree
<1>19. CASE Unsubscribe
  BY <1>19 DEF Unsubscribe, AfterUnsubscribe, Entries, EntryNames,
    EntryValues
<1>20. CASE ReadProperties
  BY <1>20 DEF ReadProperties, Entries, EntryNames, EntryValues
<1>21. CASE RegisterCallback
  BY <1>21 DEF RegisterCallback, AfterSubscribe, CbMtxFree, Entries,
    EntryNames, EntryValues
<1>22. CASE Subscribe
  <2>1. statuses' \in Entries
    BY <1>22 DEF Subscribe, Entries, EntryNames, EntryValues
  <2>2. heard' \in BOOLEAN /\ userPc' \in UserPcs
    BY <1>22 DEF Subscribe, AfterSubscribe
  <2> QED
    BY <1>22, <2>1, <2>2 DEF Subscribe
<1>23. CASE StartProcessingThread
  BY <1>23 DEF StartProcessingThread
<1>24. CASE UpdateStatuses
  BY <1>24, ComposedType DEF UpdateStatuses
<1>25. CASE ForceProcessing
  BY <1>25 DEF ForceProcessing
<1>26. CASE NotifyProcessing
  BY <1>26 DEF NotifyProcessing, Notify
<1>27. CASE PushNested
  BY <1>27 DEF PushNested
<1>28. CASE ReleaseNested
  BY <1>28 DEF ReleaseNested
<1>29. CASE JoinProcessingThread
  BY <1>29 DEF JoinProcessingThread
<1>30. CASE ClearNested
  BY <1>30 DEF ClearNested
<1>31. CASE Remove
  BY <1>31 DEF Remove
<1>32. ASSUME NEW w \in Wants, ChangeProperties(w) PROVE TypeOK'
  BY <1>32, SubscriberAssumption DEF ChangeProperties, BeginCall, Entries,
    EntryNames, EntryValues, SubscriberAssumption
<1>33. ASSUME NEW d \in Decoders, AddFunctionBlock(d) PROVE TypeOK'
  BY <1>33, SubscriberAssumption DEF AddFunctionBlock, BeginCall,
    SubscriberAssumption
<1>34. ASSUME NEW d \in Decoders, RemoveFunctionBlock(d) PROVE TypeOK'
  BY <1>34, SubscriberAssumption DEF RemoveFunctionBlock, BeginCall,
    SubscriberAssumption
<1>35. CASE UNCHANGED vars
  BY <1>35
<1>36. QED
  BY <1>1, <1>2, <1>3, <1>4, <1>5, <1>6, <1>7, <1>8, <1>9, <1>10, <1>11,
    <1>12, <1>13, <1>14, <1>15, <1>16, <1>17, <1>18, <1>19, <1>20, <1>21,
    <1>22, <1>23, <1>24, <1>25, <1>26, <1>27, <1>28, <1>29, <1>30, <1>31,
    <1>32, <1>33, <1>34, <1>35 DEF Next, ProcStep, UserStep, UserBegin, Gone

\* Every variable has its type, in every reachable state.
THEOREM TypeCorrect == Spec => []TypeOK
  BY TypeInit, TypeStep, PTL DEF Spec

-----------------------------------------------------------------------------
(* The protocol between the threads.                                       *)

LEMMA ProtocolInit == Init => Protocol
  BY SubscriberAssumption
  DEF Init, Protocol, Control, Mutex, Locked, Callbacks, CallbackFollowsTopic,
      Thread, Batch, Applied, HasWanted, Interval, NestedAreAlive, Ok, Err,
      EntryNames

LEMMA ProtocolStep == IInv /\ [Next]_vars => Protocol'
<1> SUFFICES ASSUME IInv, [Next]_vars PROVE Protocol'
  OBVIOUS
<1> USE DEF vars, userVars, call, recvVars, procLocals, topicVars, nestVars,
            flagVars, statusVars, notProc, notUser, notProcPc, ProcGoto,
            UserGoto, IInv, Protocol, Control, Mutex, Locked, Callbacks,
            CallbackFollowsTopic, Thread, Batch, Applied, Subscribed,
            HasWanted, Interval, NestedAreAlive
<1>1. ASSUME NEW t \in Topics, OnMsgArrived(t) PROVE Protocol'
  BY <1>1 DEF OnMsgArrived, CbMtxFree
<1>2. CASE ProcessMessage
  BY <1>2 DEF ProcessMessage, QueueMutexFree, Notify
<1>3. CASE ProcLoop
  BY <1>3 DEF ProcLoop, TypeOK
<1>4. CASE ProcCheck
  BY <1>4 DEF ProcCheck, MustProcess
<1>5. CASE ProcSleep
  BY <1>5 DEF ProcSleep
<1>6. CASE ProcTimeout
  BY <1>6 DEF ProcTimeout
<1>7. CASE ProcSwap
  BY <1>7 DEF ProcSwap, TypeOK
<1>8. CASE ProcUnforce
  BY <1>8 DEF ProcUnforce
<1>9. CASE ProcLock
  BY <1>9 DEF ProcLock
<1>10. CASE ProcDispatch
  BY <1>10 DEF ProcDispatch, TypeOK, Entries, EntryNames, Ok, Err, Waiting
<1>11. CASE ProcUnlock
  BY <1>11 DEF ProcUnlock
<1>12. CASE ProcReport
  BY <1>12 DEF ProcReport, TypeOK, Entries, EntryNames, Ok, Err, Waiting
<1>13. CASE ProcWait
  BY <1>13 DEF ProcWait, TypeOK, Entries, EntryNames, Ok, Err, Waiting
<1>14. CASE ProcPublish
  BY <1>14 DEF ProcPublish
<1>15. CASE ProcSpurious
  BY <1>15 DEF ProcSpurious
<1>16. CASE UserLock
  BY <1>16 DEF UserLock, TypeOK
<1>17. CASE SkipUnsubscribe
  BY <1>17, SubscriberAssumption DEF SkipUnsubscribe, AfterUnsubscribe,
    TypeOK, SubscriberAssumption
<1>18. CASE EraseCallback
  BY <1>18 DEF EraseCallback, CbMtxFree, TypeOK
<1>19. CASE Unsubscribe
  BY <1>19 DEF Unsubscribe, AfterUnsubscribe, TypeOK, Entries, EntryNames,
    Ok, Err, Waiting
<1>20. CASE ReadProperties
  BY <1>20 DEF ReadProperties, TypeOK, Entries, EntryNames, Ok, Err, Waiting
<1>21. CASE RegisterCallback
  BY <1>21 DEF RegisterCallback, AfterSubscribe, CbMtxFree, TypeOK, Entries,
    EntryNames, Ok, Err, Waiting
<1>22. CASE Subscribe
  BY <1>22 DEF Subscribe, AfterSubscribe, TypeOK, Entries, EntryNames, Ok,
    Err, Waiting
<1>23. CASE StartProcessingThread
  BY <1>23 DEF StartProcessingThread
<1>24. CASE UpdateStatuses
  BY <1>24 DEF UpdateStatuses
<1>25. CASE ForceProcessing
  BY <1>25 DEF ForceProcessing
<1>26. CASE NotifyProcessing
  BY <1>26 DEF NotifyProcessing, Notify
<1>27. CASE PushNested
  BY <1>27 DEF PushNested
<1>28. CASE ReleaseNested
  BY <1>28 DEF ReleaseNested
<1>29. CASE JoinProcessingThread
  BY <1>29 DEF JoinProcessingThread
<1>30. CASE ClearNested
  BY <1>30 DEF ClearNested
<1>31. CASE Remove
  BY <1>31 DEF Remove
<1>32. ASSUME NEW w \in Wants, ChangeProperties(w) PROVE Protocol'
  BY <1>32 DEF ChangeProperties, BeginCall
<1>33. ASSUME NEW d \in Decoders, AddFunctionBlock(d) PROVE Protocol'
  BY <1>33 DEF AddFunctionBlock, BeginCall
<1>34. ASSUME NEW d \in Decoders, RemoveFunctionBlock(d) PROVE Protocol'
  BY <1>34 DEF RemoveFunctionBlock, BeginCall
<1>35. CASE UNCHANGED vars
  BY <1>35
<1>36. QED
  BY <1>1, <1>2, <1>3, <1>4, <1>5, <1>6, <1>7, <1>8, <1>9, <1>10, <1>11,
    <1>12, <1>13, <1>14, <1>15, <1>16, <1>17, <1>18, <1>19, <1>20, <1>21,
    <1>22, <1>23, <1>24, <1>25, <1>26, <1>27, <1>28, <1>29, <1>30, <1>31,
    <1>32, <1>33, <1>34, <1>35 DEF Next, ProcStep, UserStep, UserBegin, Gone

\* The inductive invariant holds.
THEOREM Invariance == Spec => []IInv
<1>1. Init => IInv
  BY TypeInit, ProtocolInit DEF IInv
<1>2. IInv /\ [Next]_vars => IInv'
  BY TypeStep, ProtocolStep DEF IInv
<1> QED
  BY <1>1, <1>2, PTL DEF Spec

\* The client holds no callback of the block but the one for its topic.
THEOREM CallbacksErased == Spec => []CallbackFollowsTopic
<1>1. IInv => CallbackFollowsTopic
  BY DEF IInv, Protocol, Callbacks
<1> QED
  BY <1>1, Invariance, PTL

\* After the destructor no thread is in the block and none can enter it,
\* although the requests to the broker may have failed.
THEOREM SafeDestruction == Spec => []NobodyInsideWhenGone
<1>1. IInv => NobodyInsideWhenGone
  BY DEF IInv, Protocol, Control, Callbacks, Thread, NobodyInsideWhenGone
<1> QED
  BY <1>1, Invariance, PTL

\* A change that is not reported as failed is in force when the call returns.
THEOREM ChangesApplied == Spec => []AppliedOrReported
<1>1. IInv => AppliedOrReported
  BY DEF IInv, Protocol, Applied, Subscribed, HasWanted, AppliedOrReported
<1> QED
  BY <1>1, Invariance, PTL

\* No thread waits out an interval that the user has changed.
THEOREM NoStaleWait == Spec => []StaleIntervalIsForced
<1>1. IInv => StaleIntervalIsForced
  BY DEF IInv, Protocol, Interval, StaleIntervalIsForced
<1> QED
  BY <1>1, Invariance, PTL

\* The processing thread never calls a decoder that has been removed.
THEOREM DecodersAlive == Spec => []NestedAreAlive
<1>1. IInv => NestedAreAlive
  BY DEF IInv, Protocol
<1> QED
  BY <1>1, Invariance, PTL

-----------------------------------------------------------------------------
(* One batch, one configuration.                                           *)

\* While a batch is dispatched, processingMutex keeps the topic and the list
\* of decoders as they are.
LEMMA BatchStep ==
  IInv /\ [Next]_vars =>
    [procPc = "dispatch" =>
       UNCHANGED <<topicForSubscribing, nestedFunctionBlocks>>]_vars
<1> SUFFICES ASSUME IInv, [Next]_vars, procPc = "dispatch"
             PROVE  UNCHANGED <<topicForSubscribing, nestedFunctionBlocks>>
  OBVIOUS
<1>1. processingMutex = "proc" /\ ~Locked
  BY DEF IInv, Protocol, Mutex
<1> USE DEF vars, topicVars, nestVars, notProc, UserGoto, Locked
<1>2. ASSUME NEW t \in Topics, OnMsgArrived(t)
      PROVE  UNCHANGED <<topicForSubscribing, nestedFunctionBlocks>>
  BY <1>2 DEF OnMsgArrived
<1>3. CASE ProcessMessage
  BY <1>3 DEF ProcessMessage
<1>4. CASE ProcStep \/ ProcSpurious
  BY <1>4 DEF ProcStep, ProcSpurious, ProcLoop, ProcCheck, ProcSleep,
       ProcTimeout, ProcSwap, ProcUnforce, ProcLock, ProcDispatch, ProcUnlock,
       ProcReport, ProcWait, ProcPublish, notProcPc
<1>5. CASE Unsubscribe \/ ReadProperties \/ ClearNested
  <2>1. userPc \in {"unsubscribe", "read", "clear"}
    BY <1>5 DEF Unsubscribe, ReadProperties, ClearNested
  <2>2. userPc = "clear" \/ (userPc = "unsubscribe" /\ userOp # "change")
    BY <1>1, <2>1 DEF IInv, Protocol, Control
  <2>3. procPc = "done"
    BY <2>2 DEF IInv, Protocol, Control, Thread
  <2> QED
    BY <2>3
<1>6. CASE PushNested
  BY <1>1, <1>6 DEF PushNested
<1>7. ASSUME NEW d \in Decoders, AddFunctionBlock(d) \/ RemoveFunctionBlock(d)
      PROVE  UNCHANGED <<topicForSubscribing, nestedFunctionBlocks>>
  BY <1>1, <1>7 DEF AddFunctionBlock, RemoveFunctionBlock
<1>8. CASE UserLock \/ SkipUnsubscribe \/ EraseCallback \/ RegisterCallback
           \/ Subscribe \/ StartProcessingThread \/ UpdateStatuses
           \/ ForceProcessing \/ NotifyProcessing \/ ReleaseNested
           \/ JoinProcessingThread
  BY <1>8 DEF UserLock, SkipUnsubscribe, EraseCallback, RegisterCallback,
       Subscribe, StartProcessingThread, UpdateStatuses, ForceProcessing,
       NotifyProcessing, ReleaseNested, JoinProcessingThread
<1>9. ASSUME NEW w \in Wants, ChangeProperties(w)
      PROVE  UNCHANGED <<topicForSubscribing, nestedFunctionBlocks>>
  BY <1>9 DEF ChangeProperties
<1>10. CASE Remove \/ UNCHANGED vars
  BY <1>10 DEF Remove
<1> QED
  BY <1>2, <1>3, <1>4, <1>5, <1>6, <1>7, <1>8, <1>9, <1>10
  DEF Next, UserStep, UserBegin, Gone

\* No call of the user changes the configuration in the middle of a batch.
THEOREM OneConfigurationPerBatch == Spec => BatchSeesOneConfiguration
  BY BatchStep, Invariance, PTL DEF Spec, BatchSeesOneConfiguration

-----------------------------------------------------------------------------
(* Refinement of the abstract feed.                                        *)

\* The head and the tail of a concatenation are those of its first part.
LEMMA HeadTailOfConcat ==
  ASSUME NEW S, NEW s \in Seq(S), NEW u \in Seq(S), s # <<>>
  PROVE  /\ s \o u # <<>>
         /\ Head(s \o u) = Head(s)
         /\ Tail(s \o u) = Tail(s) \o u
  BY HeadTailProperties, ConcatProperties

LEMMA FeedInit == Init => Feed!Init
<1> SUFFICES ASSUME Init PROVE Feed!Init
  OBVIOUS
<1>1. want.topic \in Topics \cup {NoTopic}
  BY DEF Init, Wants, TopicOrNone
<1>2. localQueue \o messageQueue = <<>>
  BY DEF Init
<1> QED
  BY <1>1, <1>2 DEF Init, Feed!Init

LEMMA FeedStep == IInv /\ [Next]_vars => [Feed!Next]_Feed!vars
<1> SUFFICES ASSUME IInv, [Next]_vars PROVE [Feed!Next]_Feed!vars
  OBVIOUS
<1> USE DEF vars, userVars, call, recvVars, procLocals, topicVars, nestVars,
            flagVars, statusVars, notProc, notUser, notProcPc, ProcGoto,
            UserGoto, IInv
<1>1. ASSUME NEW t \in Topics, OnMsgArrived(t)
       PROVE [Feed!Next]_Feed!vars
  BY <1>1 DEF OnMsgArrived, Feed!vars
<1>2. CASE ProcessMessage
  <2>1. PICK m \in delivering : messageQueue' = Append(messageQueue, m)
    BY <1>2 DEF ProcessMessage
  <2>2. m \in Msgs /\ localQueue \in Seq(Msgs) /\ messageQueue \in Seq(Msgs)
    BY DEF TypeOK
  <2>3. localQueue \o Append(messageQueue, m)
          = Append(localQueue \o messageQueue, m)
    BY <2>2, AppendIsConcat, ConcatAssociative
  <2> QED
    BY <1>2, <2>1, <2>2, <2>3
    DEF ProcessMessage, Notify, Feed!Next, Feed!Accept
<1>3. CASE ProcLoop
  BY <1>3 DEF ProcLoop, Feed!Next, Feed!Close, Feed!vars
<1>4. CASE ProcCheck
  BY <1>4 DEF ProcCheck, MustProcess, Feed!vars
<1>5. CASE ProcSleep
  BY <1>5 DEF ProcSleep, Feed!vars
<1>6. CASE ProcTimeout
  BY <1>6 DEF ProcTimeout, Feed!vars
<1>7. CASE ProcSwap
  <2>1. localQueue = <<>> /\ messageQueue \in Seq(Msgs)
    BY <1>7 DEF ProcSwap, ProcGoto, Protocol, Batch, TypeOK
  <2>2. <<>> \o messageQueue = messageQueue \o <<>>
    BY <2>1, ConcatEmptySeq
  <2> QED
    BY <1>7, <2>1, <2>2, SwapQueues
    DEF ProcSwap, Feed!Next, Feed!Close, Feed!vars
<1>8. CASE ProcUnforce
  BY <1>8 DEF ProcUnforce, Feed!vars
<1>9. CASE ProcLock
  BY <1>9 DEF ProcLock, Feed!vars
<1>10. CASE ProcDispatch
  <2>1. /\ localQueue \in Seq(Msgs) /\ messageQueue \in Seq(Msgs)
        /\ localQueue # <<>>
    BY <1>10, DispatchQueue DEF TypeOK
  <2>2. /\ localQueue \o messageQueue # <<>>
        /\ Head(localQueue \o messageQueue) = Head(localQueue)
        /\ Tail(localQueue \o messageQueue) = Tail(localQueue) \o messageQueue
    BY <2>1, HeadTailOfConcat
  <2> QED
    BY <1>10, <2>2, DispatchQueue
    DEF ProcDispatch, Feed!Next, Feed!Handle
<1>11. CASE ProcUnlock
  BY <1>11 DEF ProcUnlock, Feed!vars
<1>12. CASE ProcReport
  BY <1>12 DEF ProcReport, Feed!vars
<1>13. CASE ProcWait
  BY <1>13 DEF ProcWait, Feed!vars
<1>14. CASE ProcPublish
  BY <1>14 DEF ProcPublish, Feed!vars
<1>15. CASE ProcSpurious
  BY <1>15 DEF ProcSpurious, Feed!vars
<1>16. CASE UserLock
  BY <1>16 DEF UserLock, Feed!vars
<1>17. CASE SkipUnsubscribe
  BY <1>17 DEF SkipUnsubscribe, AfterUnsubscribe, Feed!vars
<1>18. CASE EraseCallback
  BY <1>18 DEF EraseCallback, Feed!vars
<1>19. CASE Unsubscribe
  BY <1>19 DEF Unsubscribe, AfterUnsubscribe, TypeOK, TopicOrNone,
    Feed!Next, Feed!Reconfigure
<1>20. CASE ReadProperties
  BY <1>20 DEF ReadProperties, TypeOK, TopicOrNone, Feed!Next,
    Feed!Reconfigure, Wants
<1>21. CASE RegisterCallback
  BY <1>21 DEF RegisterCallback, AfterSubscribe, Feed!vars
<1>22. CASE Subscribe
  BY <1>22 DEF Subscribe, AfterSubscribe, Feed!vars
<1>23. CASE StartProcessingThread
  BY <1>23 DEF StartProcessingThread, Protocol, Thread, Control, Feed!vars
<1>24. CASE UpdateStatuses
  BY <1>24 DEF UpdateStatuses, Feed!vars
<1>25. CASE ForceProcessing
  BY <1>25 DEF ForceProcessing, Feed!vars
<1>26. CASE NotifyProcessing
  BY <1>26 DEF NotifyProcessing, Notify, Feed!vars
<1>27. CASE PushNested
  BY <1>27 DEF PushNested, TypeOK, TopicOrNone, Feed!Next, Feed!Reconfigure
<1>28. CASE ReleaseNested
  BY <1>28 DEF ReleaseNested, Feed!vars
<1>29. CASE JoinProcessingThread
  BY <1>29 DEF JoinProcessingThread, Feed!vars
<1>30. CASE ClearNested
  BY <1>30 DEF ClearNested, TypeOK, TopicOrNone, Feed!Next, Feed!Reconfigure
<1>31. CASE Remove
  BY <1>31 DEF Remove, Feed!vars
<1>32. ASSUME NEW w \in Wants, ChangeProperties(w)
       PROVE [Feed!Next]_Feed!vars
  BY <1>32 DEF ChangeProperties, Feed!vars
<1>33. ASSUME NEW d \in Decoders, AddFunctionBlock(d)
       PROVE [Feed!Next]_Feed!vars
  BY <1>33 DEF AddFunctionBlock, Feed!vars
<1>34. ASSUME NEW d \in Decoders, RemoveFunctionBlock(d)
       PROVE [Feed!Next]_Feed!vars
  BY <1>34 DEF RemoveFunctionBlock, TypeOK, TopicOrNone, Feed!Next,
    Feed!Reconfigure
<1>35. CASE UNCHANGED vars
  BY <1>35 DEF Feed!vars
<1>36. QED
  BY <1>1, <1>2, <1>3, <1>4, <1>5, <1>6, <1>7, <1>8, <1>9, <1>10, <1>11,
    <1>12, <1>13, <1>14, <1>15, <1>16, <1>17, <1>18, <1>19, <1>20, <1>21,
    <1>22, <1>23, <1>24, <1>25, <1>26, <1>27, <1>28, <1>29, <1>30, <1>31,
    <1>32, <1>33, <1>34, <1>35 DEF Next, ProcStep, UserStep, UserBegin, Gone

\* The block implements the safety part of the feed: it loses, duplicates and
\* reorders no accepted message, and handles none after its thread has ended.
THEOREM ImplementsFeed == Spec => Feed!Init /\ [][Feed!Next]_Feed!vars
  BY FeedInit, FeedStep, Invariance, PTL DEF Spec

=============================================================================
