---------------------------- MODULE SubscriberFb ----------------------------
(***************************************************************************)
(* MqttSubscriberFbImpl: the function block that follows one MQTT topic.   *)
(* Three threads meet in it:                                               *)
(*   - the user's thread constructs it, changes its properties, nests      *)
(*     decoders in it and removes it (the SDK serialises these calls);     *)
(*   - the receive thread of the MQTT library delivers messages through    *)
(*     the callback the block registered with MqttAsyncClient;             *)
(*   - the block's own processing thread (processingLoop) empties the      *)
(*     message queue and gives the messages to the nested decoders.        *)
(* Locks: queueMutex guards messageQueue, processingMutex the topic and    *)
(* the nested decoders, cbMtx of the client the callback registry.         *)
(***************************************************************************)
EXTENDS Naturals, Sequences

CONSTANTS
  Topics,     \* valid topic names
  NoTopic,    \* the empty string: the property is empty or not a valid topic
  Intervals,  \* values of the property "data timeout" (ms); 0 is the default
  Decoders,   \* JSON decoders that can be nested
  MaxMsgs,    \* bound: how many messages arrive in a behaviour
  MaxCalls    \* bound: how many calls the user begins before the removal

ASSUME SubscriberAssumption ==
  /\ NoTopic \notin Topics
  /\ Intervals \subseteq Nat
  /\ MaxMsgs \in Nat /\ MaxCalls \in Nat

VARIABLES
  \* the user's thread
  userPc, userOp,       \* where it is, in which operation
  want,                 \* the property values it asked for last
  calls,                \* how many calls it has begun
  \* the receive thread
  delivering,           \* the message (at most one) whose callback runs
  arrived,              \* how many messages have arrived
  \* the processing thread
  procPc, localQueue, interval, hasRelevantMessage, seenTopic,
  \* shared
  processingRunning, forceProcessing, dataIntervalMs,
  messageQueue,
  processingMutex,      \* the thread that holds it: "none", "user", "proc"
  topicForSubscribing,
  registered,           \* topics with this block's callback (onMsgArrivedCbs)
  nestedFunctionBlocks, \* the decoders that messages are given to
  functionBlocks,       \* the SDK's folder: the decoders that are alive
  statuses,             \* the five entries of the StatusContainer
  componentStatus,      \* what the user sees
  \* history
  out,                  \* messages given out, and to whom
  heard                 \* the current subscription has produced data

call == <<userOp, want, calls>>       \* what stays while a call runs
userVars == <<userPc, call>>
recvVars == <<delivering, arrived>>
procLocals == <<localQueue, interval, hasRelevantMessage, seenTopic>>
topicVars == <<topicForSubscribing, registered>>
nestVars == <<nestedFunctionBlocks, functionBlocks>>
flagVars == <<processingRunning, forceProcessing, dataIntervalMs>>
statusVars == <<statuses, componentStatus>>

vars == <<userVars, recvVars, procPc, procLocals, flagVars, messageQueue,
          processingMutex, topicVars, nestVars, statusVars, out, heard>>

\* What the processing thread, and what the user's thread, never writes.
notProc == <<userVars, recvVars, topicVars, nestVars, processingRunning,
             dataIntervalMs>>
notUser == <<recvVars, procLocals, messageQueue, out>>

-----------------------------------------------------------------------------
TopicOrNone == Topics \cup {NoTopic}
Msgs == [topic : Topics, id : 1..MaxMsgs]
Wants == [topic : TopicOrNone, interval : Intervals]

(***************************************************************************)
(* Status entries. "ok" is an entry that is not set; a waiting entry names *)
(* the topic it waits for; what the other messages say is left out.        *)
(***************************************************************************)
Ok == <<"ok", NoTopic>>
Err == <<"error", NoTopic>>
Waiting(t) == <<"waiting", t>>
EntryNames == {"json", "config", "subscription", "dataAcq", "domain"}
EntryValues == {Ok, Err} \cup {Waiting(t) : t \in TopicOrNone}
Entries == [EntryNames -> EntryValues]

\* updateStatuses shows the first entry, in this order, that is not ok. It
\* shows nothing new when no entry changed since the last call.
Composed(s) ==
  LET e == IF s["json"] # Ok THEN "json"
           ELSE IF s["config"] # Ok THEN "config"
           ELSE IF s["subscription"] # Ok THEN "subscription"
           ELSE IF s["dataAcq"] # Ok THEN "dataAcq"
           ELSE "domain"
  IN <<e, s[e]>>

DataReceived == <<"domain", Ok>>      \* "Data has been received"

\* queueCv.notify_one/all: the processing thread is the only one that waits.
Notify == procPc' = IF procPc = "asleep" THEN "check" ELSE procPc

\* Mutant of CbMtxFree: callbacks run after cbMtx has been released.
CbMtxUnused == TRUE

\* The receive thread holds cbMtx from the lookup until the callback returns.
CbMtxFree == delivering = {}

\* The processing thread holds queueMutex while it evaluates the condition
\* of its wait, and then until it sleeps or has swapped the queue.
QueueMutexFree == procPc \notin {"sleepy", "swap"}

\* The lambda "check": the condition of the wait.
MustProcess == messageQueue # <<>> \/ ~processingRunning \/ forceProcessing

-----------------------------------------------------------------------------
(***************************************************************************)
(* The constructor has read the properties and is about to subscribe. When *)
(* it found no valid topic there, it has tried the JSON configuration,     *)
(* which can supply a topic and decoders. A configuration that parses      *)
(* resets the entry "config", even if its topic is not valid.              *)
(***************************************************************************)
Init ==
  /\ userPc = "register" /\ userOp = "construct"
  /\ want \in Wants /\ calls = 0
  /\ \E json, config \in {Ok, Err} :
       /\ want.topic # NoTopic => json = Ok /\ config = Ok
       /\ want.topic = NoTopic => json = Err \/ config = Err
       /\ statuses = [[e \in EntryNames |-> Ok] EXCEPT
            !["json"] = json, !["config"] = config]
  /\ functionBlocks \in SUBSET Decoders
  /\ want.topic = NoTopic => functionBlocks = {}
  /\ nestedFunctionBlocks = functionBlocks
  /\ componentStatus = <<"none", Ok>>
  /\ delivering = {} /\ arrived = 0
  /\ procPc = "unborn" /\ localQueue = <<>> /\ interval = want.interval
  /\ hasRelevantMessage = FALSE /\ seenTopic = NoTopic
  /\ processingRunning = FALSE /\ forceProcessing = FALSE
  /\ dataIntervalMs = want.interval
  /\ messageQueue = <<>> /\ processingMutex = "none"
  /\ topicForSubscribing = want.topic /\ registered = {}
  /\ out = <<>> /\ heard = FALSE

-----------------------------------------------------------------------------
(* The receive thread of the MQTT library.                                 *)

\* onMsgArrived takes cbMtx and finds the block's callback for the topic. (A
\* message whose topic has no callback is dropped: no step.) A persistent
\* session, or a message in flight, can bring any topic at any time.
OnMsgArrived(t) ==
  /\ CbMtxFree
  /\ arrived < MaxMsgs
  /\ t \in registered
  /\ arrived' = arrived + 1
  /\ delivering' = {[topic |-> t, id |-> arrived + 1]}
  /\ UNCHANGED <<userVars, procPc, procLocals, flagVars, messageQueue,
                 processingMutex, topicVars, nestVars, statusVars, out, heard>>

\* The callback, processMessage: push under queueMutex, wake the processing
\* thread and return, which releases cbMtx.
ProcessMessage ==
  /\ QueueMutexFree
  /\ \E m \in delivering : messageQueue' = Append(messageQueue, m)
  /\ Notify
  /\ delivering' = {}
  /\ UNCHANGED <<userVars, arrived, procLocals, flagVars, processingMutex,
                 topicVars, nestVars, statusVars, out, heard>>

-----------------------------------------------------------------------------
(* The processing thread: processingLoop, one action per atomic section.   *)

ProcGoto(from, to) == procPc = from /\ procPc' = to

\* The head of the loop: the interval this turn will wait for is read here.
ProcLoop ==
  /\ \/ /\ processingRunning
        /\ ProcGoto("loop", "check")
        /\ interval' = dataIntervalMs
     \/ /\ ~processingRunning
        /\ ProcGoto("loop", "done")
        /\ UNCHANGED interval
  /\ UNCHANGED <<notProc, localQueue, hasRelevantMessage, seenTopic,
                 forceProcessing, messageQueue, processingMutex, statusVars,
                 out, heard>>

notProcPc == <<notProc, procLocals, forceProcessing, messageQueue,
               processingMutex, statusVars, out, heard>>

\* wait_for evaluates the condition with queueMutex held ...
ProcCheck ==
  /\ \/ MustProcess /\ ProcGoto("check", "swap")
     \/ ~MustProcess /\ ProcGoto("check", "sleepy")
  /\ UNCHANGED notProcPc

\* ... and sleeps. A notification that came in between is lost: the flags
\* processingRunning and forceProcessing are set without queueMutex.
ProcSleep == ProcGoto("sleepy", "asleep") /\ UNCHANGED notProcPc

\* Mutant of ProcTimeout: the wait has no deadline.
ProcTimeoutNever == FALSE /\ UNCHANGED vars

\* The wait is timed: when the interval is over (at once when it is 0) the
\* loop goes on, whatever the condition says.
ProcTimeout == ProcGoto("asleep", "swap") /\ UNCHANGED notProcPc

\* A spurious wake-up evaluates the condition again.
ProcSpurious == ProcGoto("asleep", "check") /\ UNCHANGED notProcPc

\* Mutant of ProcSwap: the queue is copied, not swapped.
ProcSwapCopies ==
  /\ \/ /\ processingRunning
        /\ ProcGoto("swap", "unforce")
        /\ localQueue' = messageQueue
     \/ /\ ~processingRunning
        /\ ProcGoto("swap", "done")
        /\ UNCHANGED localQueue
  /\ UNCHANGED <<notProc, interval, hasRelevantMessage, seenTopic,
                 messageQueue, forceProcessing, processingMutex, statusVars,
                 out, heard>>

\* Still under queueMutex: leave when stopped, else take the whole queue.
ProcSwap ==
  /\ \/ /\ processingRunning
        /\ ProcGoto("swap", "unforce")
        /\ localQueue' = messageQueue
        /\ messageQueue' = <<>>
     \/ /\ ~processingRunning
        /\ ProcGoto("swap", "done")
        /\ UNCHANGED <<localQueue, messageQueue>>
  /\ UNCHANGED <<notProc, interval, hasRelevantMessage, seenTopic,
                 forceProcessing, processingMutex, statusVars, out, heard>>

ProcUnforce ==
  /\ ProcGoto("unforce", IF localQueue = <<>> THEN "report" ELSE "lock")
  /\ forceProcessing' = FALSE
  /\ hasRelevantMessage' = FALSE
  /\ UNCHANGED <<notProc, localQueue, interval, seenTopic, messageQueue,
                 processingMutex, statusVars, out, heard>>

ProcLock ==
  /\ ProcGoto("lock", "dispatch")
  /\ processingMutex = "none"
  /\ processingMutex' = "proc"
  /\ UNCHANGED <<notProc, procLocals, forceProcessing, messageQueue,
                 statusVars, out, heard>>

\* One message of the local queue, under processingMutex. processMessageImpl
\* gives it to every nested decoder; its preview packet may find a time stamp
\* equal to the previous one, which sets the domain entry.
ProcDispatch ==
  /\ ProcGoto("dispatch", "dispatch")
  /\ localQueue # <<>>
  /\ localQueue' = Tail(localQueue)
  /\ LET m == Head(localQueue) IN
       \/ /\ m.topic = topicForSubscribing
          /\ \E domain \in {statuses["domain"], Err} :
               statuses' = [statuses EXCEPT !["dataAcq"] = Ok,
                                            !["domain"] = domain]
          /\ out' = Append(out, [msg |-> m, to |-> nestedFunctionBlocks])
          /\ heard' = TRUE
          /\ hasRelevantMessage' = TRUE
       \/ /\ m.topic # topicForSubscribing
          /\ UNCHANGED <<statuses, out, heard, hasRelevantMessage>>
  /\ UNCHANGED <<notProc, interval, seenTopic, forceProcessing, messageQueue,
                 processingMutex, componentStatus>>

ProcUnlock ==
  /\ ProcGoto("dispatch", "report")
  /\ localQueue = <<>>
  /\ processingMutex' = "none"
  /\ UNCHANGED <<notProc, procLocals, forceProcessing, messageQueue,
                 statusVars, out, heard>>

\* Mutant of ProcReport: the entry is never set again after the subscription.
ProcReportResetsOnly ==
  /\ ProcGoto("report", "publish")
  /\ statuses' = IF hasRelevantMessage THEN [statuses EXCEPT !["dataAcq"] = Ok]
                 ELSE statuses
  /\ UNCHANGED <<notProc, procLocals, forceProcessing, messageQueue,
                 processingMutex, componentStatus, out, heard>>

\* processingMutex is free again. After data the entry is reset. Without data
\* it is set (unless the interval was 0) to a text that getSubscribedTopic
\* first fetches under processingMutex.
ProcReport ==
  /\ \/ /\ hasRelevantMessage
        /\ ProcGoto("report", "publish")
        /\ statuses' = [statuses EXCEPT !["dataAcq"] = Ok]
        /\ UNCHANGED seenTopic
     \/ /\ ~hasRelevantMessage /\ interval # 0
        /\ processingMutex = "none"
        /\ ProcGoto("report", "wait")
        /\ seenTopic' = topicForSubscribing
        /\ UNCHANGED statuses
     \/ /\ ~hasRelevantMessage /\ interval = 0
        /\ ProcGoto("report", "publish")
        /\ UNCHANGED <<statuses, seenTopic>>
  /\ UNCHANGED <<notProc, localQueue, interval, hasRelevantMessage,
                 forceProcessing, messageQueue, processingMutex,
                 componentStatus, out, heard>>

ProcWait ==
  /\ ProcGoto("wait", "publish")
  /\ statuses' = [statuses EXCEPT !["dataAcq"] = Waiting(seenTopic)]
  /\ UNCHANGED <<notProc, procLocals, forceProcessing, messageQueue,
                 processingMutex, componentStatus, out, heard>>

ProcPublish ==
  /\ ProcGoto("publish", "loop")
  /\ componentStatus' = Composed(statuses)
  /\ UNCHANGED <<notProc, procLocals, forceProcessing, messageQueue,
                 processingMutex, statuses, out, heard>>

ProcStep ==
  \/ ProcLoop \/ ProcCheck \/ ProcSleep \/ ProcTimeout \/ ProcSwap
  \/ ProcUnforce \/ ProcLock \/ ProcDispatch \/ ProcUnlock \/ ProcReport
  \/ ProcWait \/ ProcPublish

-----------------------------------------------------------------------------
(***************************************************************************)
(* The user's thread. A call runs as userOp, step by step:                 *)
(*   construct  register, subscribe, start, status                         *)
(*   change     lock, erase, unsubscribe, read, register, subscribe,       *)
(*              status, force, notify   (from erase to notify with         *)
(*              processingMutex)                                           *)
(*   add, drop  push; release                                              *)
(*   remove     stop, notify, join, erase, unsubscribe, clear, and then    *)
(*   destroy    erase, unsubscribe  (the destructor tries again)           *)
(***************************************************************************)
UserGoto(from, to) == userPc = from /\ userPc' = to

BeginCall(op) ==
  /\ calls < MaxCalls
  /\ calls' = calls + 1
  /\ userOp' = op

\* The property object has new values and calls propertyChanged.
ChangeProperties(w) ==
  /\ UserGoto("idle", "lock")
  /\ BeginCall("change")
  /\ want' = w
  /\ statuses' = [statuses EXCEPT !["json"] = Ok, !["domain"] = Ok]
  /\ UNCHANGED <<notUser, procPc, flagVars, processingMutex, topicVars,
                 nestVars, componentStatus, heard>>

\* Mutant of UserLock: propertyChanged does not take processingMutex.
UserLockMissing ==
  /\ UserGoto("lock", "erase")
  /\ UNCHANGED <<notUser, call, procPc, flagVars, processingMutex, topicVars,
                 nestVars, statusVars, heard>>

UserLock ==
  /\ UserGoto("lock", "erase")
  /\ processingMutex = "none"
  /\ processingMutex' = "user"
  /\ UNCHANGED <<notUser, call, procPc, flagVars, topicVars, nestVars,
                 statusVars, heard>>

\* What follows unsubscribeFromTopic, which succeeded or not.
AfterUnsubscribe(ok) ==
  CASE userOp = "change" /\ ok -> "read"
    [] userOp = "change" /\ ~ok -> "status"
    [] userOp = "remove" -> "clear"
    [] OTHER -> "gone"

\* unsubscribeFromTopic, without a topic: nothing to do.
SkipUnsubscribe ==
  /\ UserGoto("erase", AfterUnsubscribe(TRUE))
  /\ topicForSubscribing = NoTopic
  /\ UNCHANGED <<notUser, call, procPc, flagVars, processingMutex,
                 topicVars, nestVars, statusVars, heard>>

\* Mutant of EraseCallback: the callback is left in the client.
EraseCallbackForgotten ==
  /\ UserGoto("erase", "unsubscribe")
  /\ topicForSubscribing # NoTopic
  /\ UNCHANGED <<notUser, call, procPc, flagVars, processingMutex, topicVars,
                 nestVars, statusVars, heard>>

\* unsubscribeFromTopic: first the callback goes, under cbMtx, so that no
\* callback of the block runs any more when this step is over.
EraseCallback ==
  /\ UserGoto("erase", "unsubscribe")
  /\ topicForSubscribing # NoTopic
  /\ CbMtxFree
  /\ registered' = registered \ {topicForSubscribing}
  /\ UNCHANGED <<notUser, call, procPc, flagVars, processingMutex,
                 topicForSubscribing, nestVars, statusVars, heard>>

\* Mutant of Unsubscribe: a time-out is only logged.
UnsubscribeSilent ==
  /\ \/ /\ UserGoto("unsubscribe", AfterUnsubscribe(TRUE))
        /\ topicForSubscribing' = NoTopic
        /\ statuses' = [statuses EXCEPT !["subscription"] = Ok]
     \/ /\ UserGoto("unsubscribe", AfterUnsubscribe(FALSE))
        /\ UNCHANGED <<topicForSubscribing, statuses>>
  /\ UNCHANGED <<notUser, call, procPc, flagVars, processingMutex, registered,
                 nestVars, componentStatus, heard>>

\* Then the broker is asked, and its answer awaited. When the request cannot
\* be made, or no answer comes in time, the topic is kept.
Unsubscribe ==
  /\ \/ /\ UserGoto("unsubscribe", AfterUnsubscribe(TRUE))
        /\ topicForSubscribing' = NoTopic
        /\ statuses' = [statuses EXCEPT !["subscription"] = Ok]
     \/ /\ UserGoto("unsubscribe", AfterUnsubscribe(FALSE))
        /\ statuses' = [statuses EXCEPT !["subscription"] = Err]
        /\ UNCHANGED topicForSubscribing
  /\ UNCHANGED <<notUser, call, procPc, flagVars, processingMutex,
                 registered, nestVars, componentStatus, heard>>

\* Mutant of ReadProperties: setTopic keeps a name that is not valid.
ReadPropertiesUnchecked ==
  /\ UserGoto("read", "register")
  /\ dataIntervalMs' = want.interval
  /\ topicForSubscribing' = IF want.topic = NoTopic THEN "a/#" ELSE want.topic
  /\ statuses' = [statuses EXCEPT
                    !["config"] = IF want.topic = NoTopic THEN Err ELSE Ok]
  /\ UNCHANGED <<notUser, call, procPc, processingRunning, forceProcessing,
                 processingMutex, registered, nestVars, componentStatus, heard>>

\* readProperties and setTopic. (reconfigureSignal follows: preview signals
\* are not part of this module.)
ReadProperties ==
  /\ UserGoto("read", "register")
  /\ dataIntervalMs' = want.interval
  /\ topicForSubscribing' = want.topic
  /\ statuses' = [statuses EXCEPT
                    !["config"] = IF want.topic = NoTopic THEN Err ELSE Ok]
  /\ UNCHANGED <<notUser, call, procPc, processingRunning,
                 forceProcessing, processingMutex, registered, nestVars,
                 componentStatus, heard>>

AfterSubscribe == IF userOp = "construct" THEN "start" ELSE "status"

\* subscribeToTopic: the callback is registered before the broker is asked.
RegisterCallback ==
  /\ \/ /\ topicForSubscribing # NoTopic
        /\ CbMtxFree
        /\ UserGoto("register", "subscribe")
        /\ registered' = registered \cup {topicForSubscribing}
        /\ UNCHANGED statuses
     \/ /\ topicForSubscribing = NoTopic
        /\ UserGoto("register", AfterSubscribe)
        /\ statuses' = [statuses EXCEPT !["subscription"] = Err]
        /\ UNCHANGED registered
  /\ UNCHANGED <<notUser, call, procPc, flagVars, processingMutex,
                 topicForSubscribing, nestVars, componentStatus, heard>>

\* The request is queued or refused; what the broker answers is not read.
Subscribe ==
  /\ UserGoto("subscribe", AfterSubscribe)
  /\ \/ /\ statuses' = [statuses EXCEPT !["subscription"] = Ok,
                          !["dataAcq"] = Waiting(topicForSubscribing)]
        /\ heard' = FALSE
     \/ /\ statuses' = [statuses EXCEPT !["subscription"] = Err]
        /\ UNCHANGED heard
  /\ UNCHANGED <<notUser, call, procPc, flagVars, processingMutex,
                 topicVars, nestVars, componentStatus>>

StartProcessingThread ==
  /\ UserGoto("start", "status")
  /\ processingRunning' = TRUE
  /\ procPc' = "loop"
  /\ UNCHANGED <<notUser, call, forceProcessing, dataIntervalMs,
                 processingMutex, topicVars, nestVars, statusVars, heard>>

UpdateStatuses ==
  /\ UserGoto("status", IF userOp = "construct" THEN "idle" ELSE "force")
  /\ componentStatus' = Composed(statuses)
  /\ UNCHANGED <<notUser, call, procPc, flagVars, processingMutex,
                 topicVars, nestVars, statuses, heard>>

\* Mutant of ForceProcessing: only the notification tells of the change.
ForceProcessingNot ==
  /\ UserGoto("force", "notify")
  /\ UNCHANGED <<notUser, call, procPc, flagVars, processingMutex, topicVars,
                 nestVars, statusVars, heard>>

ForceProcessing ==
  /\ UserGoto("force", "notify")
  /\ forceProcessing' = TRUE
  /\ UNCHANGED <<notUser, call, procPc, processingRunning,
                 dataIntervalMs, processingMutex, topicVars, nestVars,
                 statusVars, heard>>

\* The end of propertyChanged (which releases processingMutex), or the
\* notify_all of stopProcessingThread.
NotifyProcessing ==
  /\ UserGoto("notify", IF userOp = "change" THEN "idle" ELSE "join")
  /\ Notify
  /\ processingMutex' = IF userOp = "change" THEN "none" ELSE processingMutex
  /\ UNCHANGED <<notUser, call, flagVars, topicVars, nestVars,
                 statusVars, heard>>

\* onAddFunctionBlock: the decoder is created in the folder, and then (calls
\* are serialised: it is the only one not listed) added to the list of the
\* processing thread.
AddFunctionBlock(d) ==
  /\ UserGoto("idle", "push")
  /\ BeginCall("add")
  /\ d \notin functionBlocks
  /\ functionBlocks' = functionBlocks \cup {d}
  /\ UNCHANGED <<notUser, want, procPc, flagVars, processingMutex, topicVars,
                 nestedFunctionBlocks, statusVars, heard>>

PushNested ==
  /\ UserGoto("push", "idle")
  /\ processingMutex = "none"
  /\ nestedFunctionBlocks' = functionBlocks
  /\ UNCHANGED <<notUser, call, procPc, flagVars, processingMutex,
                 topicVars, functionBlocks, statusVars, heard>>

\* Mutant of RemoveFunctionBlock: removed for good before it is unlisted.
RemoveFunctionBlockFirst(d) ==
  /\ UserGoto("idle", "push")
  /\ BeginCall("drop")
  /\ d \in functionBlocks
  /\ functionBlocks' = functionBlocks \ {d}
  /\ UNCHANGED <<notUser, want, procPc, flagVars, processingMutex, topicVars,
                 nestedFunctionBlocks, statusVars, heard>>

\* onRemoveFunctionBlock: first out of the list, then removed for good.
RemoveFunctionBlock(d) ==
  /\ UserGoto("idle", "release")
  /\ BeginCall("drop")
  /\ processingMutex = "none"
  /\ d \in functionBlocks
  /\ nestedFunctionBlocks' = nestedFunctionBlocks \ {d}
  /\ UNCHANGED <<notUser, want, procPc, flagVars, processingMutex, topicVars,
                 functionBlocks, statusVars, heard>>

ReleaseNested ==
  /\ UserGoto("release", "idle")
  /\ functionBlocks' = nestedFunctionBlocks
  /\ UNCHANGED <<notUser, call, procPc, flagVars, processingMutex,
                 topicVars, nestedFunctionBlocks, statusVars, heard>>

\* removed: stopProcessingThread, ...
Remove ==
  /\ UserGoto("idle", "notify")
  /\ userOp' = "remove"
  /\ processingRunning' = FALSE
  /\ UNCHANGED <<notUser, want, calls, procPc, forceProcessing, dataIntervalMs,
                 processingMutex, topicVars, nestVars, statusVars, heard>>

JoinProcessingThread ==
  /\ UserGoto("join", "erase")
  /\ procPc = "done"
  /\ UNCHANGED <<notUser, call, procPc, flagVars, processingMutex,
                 topicVars, nestVars, statusVars, heard>>

\* ... and, after unsubscribeFromTopic, the nested blocks go. The destructor
\* follows: its stopProcessingThread finds the thread joined.
ClearNested ==
  /\ UserGoto("clear", "erase")
  /\ userOp' = "destroy"
  /\ nestedFunctionBlocks' = {}
  /\ functionBlocks' = {}
  /\ UNCHANGED <<notUser, want, calls, procPc, flagVars, processingMutex,
                 topicVars, statusVars, heard>>

\* A call that the user has begun goes on.
UserStep ==
  \/ UserLock \/ SkipUnsubscribe \/ EraseCallback \/ Unsubscribe
  \/ ReadProperties \/ RegisterCallback \/ Subscribe \/ StartProcessingThread
  \/ UpdateStatuses \/ ForceProcessing \/ NotifyProcessing \/ PushNested
  \/ ReleaseNested \/ JoinProcessingThread \/ ClearNested

\* The user begins a call.
UserBegin ==
  \/ \E w \in Wants : ChangeProperties(w)
  \/ \E d \in Decoders : AddFunctionBlock(d) \/ RemoveFunctionBlock(d)
  \/ Remove

\* The block is gone: nothing happens any more.
Gone == userPc = "gone" /\ UNCHANGED vars

Next ==
  \/ \E t \in Topics : OnMsgArrived(t)
  \/ ProcessMessage
  \/ ProcStep \/ ProcSpurious
  \/ UserStep \/ UserBegin
  \/ Gone

(***************************************************************************)
(* Fairness: threads are scheduled; a wait ends at its deadline however    *)
(* often it wakes up spuriously; the receive thread gets queueMutex, which *)
(* the processing thread takes and frees again and again; a call of the    *)
(* MQTT library returns (waitForCompletion has a time limit). The user     *)
(* need not call anything and messages need not arrive.                    *)
(***************************************************************************)
Spec ==
  /\ Init /\ [][Next]_vars
  /\ WF_vars(ProcStep) /\ SF_vars(ProcTimeout)
  /\ WF_vars(UserStep) /\ SF_vars(ProcessMessage)

-----------------------------------------------------------------------------
(* Properties.                                                             *)

ProcPcs == {"unborn", "loop", "check", "sleepy", "asleep", "swap", "unforce",
            "lock", "dispatch", "report", "wait", "publish", "done"}
UserPcs == {"idle", "lock", "erase", "unsubscribe", "read", "register",
            "subscribe", "start", "status", "force", "notify", "join", "clear",
            "push", "release", "gone"}
UserOps == {"construct", "change", "add", "drop", "remove", "destroy"}
Shown == (EntryNames \cup {"none"}) \X EntryValues

\* Every variable has its type.
TypeOK ==
  /\ userPc \in UserPcs /\ userOp \in UserOps
  /\ want \in Wants /\ calls \in 0..MaxCalls
  /\ delivering \in SUBSET Msgs /\ arrived \in 0..MaxMsgs
  /\ procPc \in ProcPcs
  /\ localQueue \in Seq(Msgs) /\ messageQueue \in Seq(Msgs)
  /\ interval \in Intervals /\ dataIntervalMs \in Intervals
  /\ hasRelevantMessage \in BOOLEAN /\ seenTopic \in TopicOrNone
  /\ processingRunning \in BOOLEAN /\ forceProcessing \in BOOLEAN
  /\ processingMutex \in {"none", "user", "proc"}
  /\ topicForSubscribing \in TopicOrNone /\ registered \in SUBSET Topics
  /\ nestedFunctionBlocks \in SUBSET Decoders
  /\ functionBlocks \in SUBSET Decoders
  /\ statuses \in Entries
  /\ componentStatus \in Shown
  /\ out \in Seq([msg : Msgs, to : SUBSET Decoders])
  /\ heard \in BOOLEAN

\* The client never holds the block's callback under a topic other than the
\* one the block would unsubscribe from: topic changes, refused requests and
\* time-outs leave no callback that nobody erases.
CallbackFollowsTopic == registered \subseteq {topicForSubscribing}

\* When the block is destroyed no thread is in it and none can enter it: the
\* processing thread has ended, no callback runs and none is registered.
NobodyInsideWhenGone ==
  userPc = "gone" =>
    procPc = "done" /\ delivering = {} /\ registered = {}

\* Between two calls: unless the subscription entry reports an error, the
\* block follows the topic and uses the interval that the user asked for
\* last, and its callback for that topic is in place.
AppliedOrReported ==
  userPc = "idle" /\ statuses["subscription"] = Ok =>
    /\ topicForSubscribing = want.topic
    /\ dataIntervalMs = want.interval
    /\ topicForSubscribing \in registered

\* A processing thread that waits, or is about to, with an interval that has
\* been changed will find forceProcessing set, unless propertyChanged is
\* about to set it.
StaleIntervalIsForced ==
  procPc \in {"check", "sleepy", "asleep"} /\ interval # dataIntervalMs =>
    \/ forceProcessing
    \/ userPc \in {"register", "subscribe", "status", "force"}

\* A decoder in the list of the processing thread is alive: it is created
\* before it is listed and unlisted before it is removed.
NestedAreAlive == nestedFunctionBlocks \subseteq functionBlocks

\* One batch is judged against one topic and given to one list of decoders,
\* however many calls the user makes meanwhile.
BatchSeesOneConfiguration ==
  [][procPc = "dispatch" =>
       UNCHANGED <<topicForSubscribing, nestedFunctionBlocks>>]_vars

\* The block implements the abstract feed: every accepted message is handled
\* exactly once, in the order of arrival, and (as long as the thread is not
\* stopped) eventually. The two queues together are the pending messages.
Feed == INSTANCE TopicFeed WITH
          open <- procPc # "done",
          topic <- topicForSubscribing,
          nested <- nestedFunctionBlocks,
          pending <- localQueue \o messageQueue
FeedSpec == Feed!Spec

\* Every call the user makes returns: a property change that waits for the
\* processing thread and for the broker, and a removal that joins a thread
\* which may have missed the notification.
EveryCallReturns == (userPc # "idle") ~> (userPc \in {"idle", "gone"})

\* "Data has been received" is shown, and the subscription has had no data.
FalselyReceived == componentStatus = DataReceived /\ ~heard /\ userPc = "idle"

\* The display "Data has been received" means that the present subscription
\* has had data.
ReceivedMeansHeard == ~FalselyReceived

\* With an interval, a false "Data has been received" does not last: the next
\* time-out corrects it.
FalselyReceivedEnds ==
  FalselyReceived ~> (~FalselyReceived \/ dataIntervalMs = 0)

=============================================================================
