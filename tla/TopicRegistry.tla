--------------------------- MODULE TopicRegistry ---------------------------
(***************************************************************************)
(* Several subscriber blocks of a device on its one client: the map from   *)
(* topics to callbacks that they share, the broker's subscriptions behind  *)
(* it, and each block's preview signal, which the same property change     *)
(* reconfigures. (SubscriberFb has the inside of one block.)               *)
(*                                                                         *)
(* A block's property change, and its removal, hold the processingMutex of *)
(* that block and go through its steps; steps of different blocks          *)
(* interleave. A topic that is empty or not valid is NoTopic.              *)
(*                                                                         *)
(* Assumed of the library and the broker: requests are answered in the     *)
(* order they were made, at any time or never; a request fails at once     *)
(* without a connection; a subscription can be refused, and be forgotten   *)
(* by a broker that restarts (clean sessions are not asked for, so it is   *)
(* kept otherwise).                                                        *)
(***************************************************************************)
EXTENDS Integers, Sequences, FiniteSets

CONSTANTS
  Blocks, Nobody,
  Topics, NoTopic,
  Previews,   \* settings of the preview: see PreviewType
  MaxCalls    \* bound: blocks created, property changes, removals

PreviewType == [enabled : BOOLEAN, string : BOOLEAN, stamped : BOOLEAN]

ASSUME RegistryAssumption ==
  /\ Nobody \notin Blocks /\ NoTopic \notin Topics
  /\ Previews \subseteq PreviewType
  /\ MaxCalls \in Nat

\* want holds the values of the properties, and what the call is for; topic and
\* preview are the members that were set from them last.
VARIABLES
  pc, topic, want, subscriptionErr,  \* of each block
  preview, outputSignal,             \* of each block
  onMsgArrivedCbs,                   \* of the client
  pending, answered,                 \* requests without answer; unsubscriptions with
  subscribed,                        \* of the broker
  shared, unheard,                   \* history, see Served
  calls

blockVars == <<pc, topic, want, subscriptionErr>>
signalVars == <<preview, outputSignal>>
brokerVars == <<pending, answered, subscribed, unheard>>
vars == <<blockVars, signalVars, onMsgArrivedCbs, brokerVars, shared, calls>>

Away == {"absent", "gone"}
Steps == {"erase", "unsubscribe", "await", "read", "register", "subscribe"}
Changes == {"properties", "removed", "destroyed"}

Requests == [cmd : {"subscribe", "unsubscribe"}, topic : Topics, block : Blocks]
Request(cmd, t, b) == [cmd |-> cmd, topic |-> t, block |-> b]

Off == [enabled |-> FALSE, string |-> FALSE, stamped |-> FALSE]

\* The preview signal: there or not, its sample type, its domain signal.
NoSignal == [there |-> FALSE, string |-> FALSE, domain |-> FALSE]

\* createSignals
createSignals(v) ==
  IF v.enabled
  THEN [there |-> TRUE, string |-> v.string, domain |-> v.stamped] ELSE NoSignal

\* The bug of not removing the domain signal when its mode is taken back.
reconfigureKeepingDomain(signal, v) ==
  IF ~v.enabled THEN NoSignal
  ELSE IF ~signal.there THEN createSignals(v)
  ELSE [signal EXCEPT !.string = v.string, !.domain = @ \/ v.stamped]

\* reconfigureSignal
reconfigureSignal(signal, v) ==
  IF ~v.enabled THEN NoSignal
  ELSE IF ~signal.there THEN createSignals(v)
  ELSE [signal EXCEPT !.string = v.string, !.domain = v.stamped]

\* The blocks that have a topic, and the topics that are shared as long as
\* anyone has them.
Having(t) == {b \in Blocks : pc[b] \notin Away /\ topic[b] = t}
Share ==
  shared' = {t \in Topics :
    \/ \E b, c \in Having(t)' : b # c
    \/ t \in shared /\ Having(t)' # {}}

Goto(b, step) == pc' = [pc EXCEPT ![b] = step]

-----------------------------------------------------------------------------
(* Calls. *)

Call == calls < MaxCalls /\ calls' = calls + 1

\* The constructor.
Create(b, t, v) ==
  /\ Call /\ pc[b] = "absent"
  /\ topic' = [topic EXCEPT ![b] = t]
  /\ preview' = [preview EXCEPT ![b] = v]
  /\ outputSignal' = [outputSignal EXCEPT ![b] = createSignals(v)]
  /\ want' = [want EXCEPT ![b] =
                [what |-> "properties", topic |-> t, preview |-> v]]
  /\ Goto(b, IF t = NoTopic THEN "idle" ELSE "register")
  /\ subscriptionErr' = [subscriptionErr EXCEPT ![b] = t = NoTopic]
  /\ UNCHANGED <<onMsgArrivedCbs, brokerVars>>
  /\ Share

\* The bug of unsubscribing from no topic.
BeginAnyway(b, w, next) ==
  /\ Call /\ pc[b] = "idle"
  /\ want' = [want EXCEPT ![b] = w]
  /\ Goto(b, "erase")
  /\ UNCHANGED <<topic, subscriptionErr, signalVars, onMsgArrivedCbs, brokerVars>>
  /\ Share

\* unsubscribeFromTopic, which both begin with, has nothing to do without topic.
Begin(b, w, next) ==
  /\ Call /\ pc[b] = "idle"
  /\ want' = [want EXCEPT ![b] = w]
  /\ Goto(b, IF topic[b] = NoTopic THEN next ELSE "erase")
  /\ UNCHANGED <<topic, subscriptionErr, signalVars, onMsgArrivedCbs, brokerVars>>
  /\ Share

PropertyChanged(b, t, v) ==
  Begin(b, [what |-> "properties", topic |-> t, preview |-> v], "read")

Removed(b) ==
  Begin(b, [want[b] EXCEPT !.what = "removed"], "gone")

-----------------------------------------------------------------------------
(* unsubscribeFromTopic *)

\* The bug of leaving the callback in the map.
EraseCallbackNot(b) ==
  /\ pc[b] = "erase"
  /\ Goto(b, "unsubscribe")
  /\ UNCHANGED <<topic, want, subscriptionErr, signalVars, onMsgArrivedCbs, brokerVars,
                 shared, calls>>

EraseCallback(b) ==
  /\ pc[b] = "erase"
  /\ onMsgArrivedCbs' = [onMsgArrivedCbs EXCEPT ![topic[b]] = Nobody]
  /\ Goto(b, "unsubscribe")
  /\ UNCHANGED <<topic, want, subscriptionErr, signalVars, brokerVars, shared, calls>>

Unsubscribe(b) ==
  /\ pc[b] = "unsubscribe"
  /\ pending' = Append(pending, Request("unsubscribe", topic[b], b))
  /\ answered' = [answered EXCEPT ![b] = FALSE]
  /\ Goto(b, "await")
  /\ UNCHANGED <<topic, want, subscriptionErr, signalVars, onMsgArrivedCbs,
                 subscribed, unheard, shared, calls>>

\* waitForCompletion has seen the answer.
Unsubscribed(b) ==
  /\ pc[b] = "await" /\ answered[b]
  /\ topic' = [topic EXCEPT ![b] = NoTopic]
  /\ subscriptionErr' = [subscriptionErr EXCEPT ![b] = FALSE]
  /\ Goto(b, IF want[b].what = "properties" THEN "read" ELSE "gone")
  /\ UNCHANGED <<want, signalVars, onMsgArrivedCbs, brokerVars, calls>>
  /\ Share

\* The bug of not reporting the failure.
UnsubscribeFailedSilently(b) ==
  /\ pc[b] \in {"unsubscribe", "await"}
  /\ want' = [want EXCEPT ![b].what = IF @ = "removed" THEN "destroyed" ELSE @]
  /\ Goto(b, IF want[b].what = "properties" THEN "idle"
             ELSE IF want[b].what = "removed" THEN "erase" ELSE "gone")
  /\ UNCHANGED <<topic, subscriptionErr, signalVars, onMsgArrivedCbs, brokerVars, calls>>
  /\ Share

\* No connection, or no answer in time. The topic is kept; a property change
\* ends with that, a removal goes on to the destructor, which tries once more.
UnsubscribeFailed(b) ==
  /\ pc[b] \in {"unsubscribe", "await"}
  /\ subscriptionErr' = [subscriptionErr EXCEPT ![b] = TRUE]
  /\ want' = [want EXCEPT ![b].what = IF @ = "removed" THEN "destroyed" ELSE @]
  /\ Goto(b, IF want[b].what = "properties" THEN "idle"
             ELSE IF want[b].what = "removed" THEN "erase" ELSE "gone")
  /\ UNCHANGED <<topic, signalVars, onMsgArrivedCbs, brokerVars, calls>>
  /\ Share

-----------------------------------------------------------------------------
(* readProperties, reconfigureSignal, subscribeToTopic *)

ReadProperties(b) ==
  /\ pc[b] = "read"
  /\ topic' = [topic EXCEPT ![b] = want[b].topic]
  /\ preview' = [preview EXCEPT ![b] = want[b].preview]
  /\ outputSignal' =
       [outputSignal EXCEPT ![b] = reconfigureSignal(@, want[b].preview)]
  /\ subscriptionErr' = [subscriptionErr EXCEPT ![b] = @ \/ want[b].topic = NoTopic]
  /\ Goto(b, IF want[b].topic = NoTopic THEN "idle" ELSE "register")
  /\ UNCHANGED <<want, onMsgArrivedCbs, brokerVars, calls>>
  /\ Share

\* setMessageArrivedCb inserts: an entry that is there stays.
RegisterCallback(b) ==
  /\ pc[b] = "register"
  /\ onMsgArrivedCbs' = [onMsgArrivedCbs EXCEPT
       ![topic[b]] = IF @ = Nobody THEN b ELSE @]
  /\ Goto(b, "subscribe")
  /\ UNCHANGED <<topic, want, subscriptionErr, signalVars, brokerVars, shared, calls>>

Subscribe(b) ==
  /\ pc[b] = "subscribe"
  /\ pending' = Append(pending, Request("subscribe", topic[b], b))
  /\ subscriptionErr' = [subscriptionErr EXCEPT ![b] = FALSE]
  /\ Goto(b, "idle")
  /\ UNCHANGED <<topic, want, signalVars, onMsgArrivedCbs, answered, subscribed,
                 unheard, shared, calls>>

SubscribeFailed(b) ==
  /\ pc[b] = "subscribe"
  /\ subscriptionErr' = [subscriptionErr EXCEPT ![b] = TRUE]
  /\ Goto(b, "idle")
  /\ UNCHANGED <<topic, want, signalVars, onMsgArrivedCbs, brokerVars, shared, calls>>

-----------------------------------------------------------------------------
(* The library and the broker. *)

\* onSubscribeSuccess and onSubscribeFailure do nothing: no block is told.
AnswerSubscribe(granted) ==
  /\ pending # <<>> /\ Head(pending).cmd = "subscribe"
  /\ LET t == {Head(pending).topic}
     IN  /\ subscribed' = IF granted THEN subscribed \cup t ELSE subscribed
         /\ unheard' = IF granted THEN unheard \ t ELSE unheard \cup t
  /\ pending' = Tail(pending)
  /\ UNCHANGED <<blockVars, signalVars, onMsgArrivedCbs, answered, shared, calls>>

\* An answer of which the time is over is not waited for.
AnswerUnsubscribe ==
  /\ pending # <<>> /\ Head(pending).cmd = "unsubscribe"
  /\ subscribed' = subscribed \ {Head(pending).topic}
  /\ LET b == Head(pending).block
         later == \E i \in 2..Len(pending) :
                    pending[i].cmd = "unsubscribe" /\ pending[i].block = b
     IN  answered' = [answered EXCEPT ![b] = pc[b] = "await" /\ ~later]
  /\ pending' = Tail(pending)
  /\ UNCHANGED <<blockVars, signalVars, onMsgArrivedCbs, unheard, shared, calls>>

BrokerForgets ==
  /\ subscribed # {}
  /\ subscribed' = {} /\ unheard' = unheard \cup subscribed
  /\ UNCHANGED <<blockVars, signalVars, onMsgArrivedCbs, pending, answered, shared,
                 calls>>

-----------------------------------------------------------------------------
Init ==
  /\ pc = [b \in Blocks |-> "absent"]
  /\ topic = [b \in Blocks |-> NoTopic]
  /\ want = [b \in Blocks |-> [what |-> "properties", topic |-> NoTopic, preview |-> Off]]
  /\ subscriptionErr = [b \in Blocks |-> FALSE]
  /\ preview = [b \in Blocks |-> Off]
  /\ outputSignal = [b \in Blocks |-> NoSignal]
  /\ onMsgArrivedCbs = [t \in Topics |-> Nobody]
  /\ pending = <<>> /\ answered = [b \in Blocks |-> FALSE]
  /\ subscribed = {} /\ shared = {} /\ unheard = {}
  /\ calls = 0

Step(b) ==
  \/ EraseCallback(b) \/ Unsubscribe(b) \/ Unsubscribed(b) \/ UnsubscribeFailed(b)
  \/ ReadProperties(b) \/ RegisterCallback(b) \/ Subscribe(b) \/ SubscribeFailed(b)

Next ==
  \/ \E b \in Blocks, t \in Topics \cup {NoTopic}, v \in Previews :
       Create(b, t, v) \/ PropertyChanged(b, t, v)
  \/ \E b \in Blocks : Removed(b) \/ Step(b)
  \/ \E granted \in BOOLEAN : AnswerSubscribe(granted)
  \/ AnswerUnsubscribe \/ BrokerForgets

Spec == Init /\ [][Next]_vars

-----------------------------------------------------------------------------
(* Properties. *)

RegistryTypeOK ==
  /\ pc \in [Blocks -> Away \cup Steps \cup {"idle"}]
  /\ topic \in [Blocks -> Topics \cup {NoTopic}]
  /\ want \in [Blocks -> [what : Changes, topic : Topics \cup {NoTopic},
                          preview : PreviewType]]
  /\ subscriptionErr \in [Blocks -> BOOLEAN]
  /\ preview \in [Blocks -> PreviewType]
  /\ outputSignal \in [Blocks -> [there : BOOLEAN, string : BOOLEAN, domain : BOOLEAN]]
  /\ onMsgArrivedCbs \in [Topics -> Blocks \cup {Nobody}]
  /\ pending \in Seq(Requests)
  /\ answered \in [Blocks -> BOOLEAN]
  /\ subscribed \subseteq Topics /\ unheard \subseteq Topics /\ shared \subseteq Topics
  /\ calls \in Nat

\* The client never calls a block that is gone, nor one for a topic that the
\* block has not: each callback belongs to a block that is there and has the
\* topic, whatever the order of erasing, time-outs and two attempts to
\* unsubscribe, of several blocks on the same topics (setMessageArrivedCb).
CallbacksHaveOwners ==
  \A t \in Topics : onMsgArrivedCbs[t] # Nobody => onMsgArrivedCbs[t] \in Having(t)

\* The broker sends t, or will when it has got all requests, or it has said no
\* (which no block is told of).
Promised(t) ==
  \/ \E i \in DOMAIN pending :
       /\ pending[i].cmd = "subscribe" /\ pending[i].topic = t
       /\ \A j \in DOMAIN pending : j > i => pending[j].topic # t
  \/ /\ \A i \in DOMAIN pending : pending[i].topic # t
     /\ t \in subscribed \cup unheard

\* A block that reports no error is served: its topic is subscribed and its
\* callback is in the map, no matter which unsubscriptions came too late. Only of
\* blocks that share a topic this is not true: the second is not in the map, and
\* the first that leaves takes the entry and the subscription away from all.
Served ==
  \A b \in Blocks :
    pc[b] = "idle" /\ topic[b] # NoTopic /\ ~subscriptionErr[b] /\ topic[b] \notin shared
      => onMsgArrivedCbs[topic[b]] = b /\ Promised(topic[b])

\* Between calls a block offers the preview that the values of its properties
\* (want) ask for: there exactly when it is enabled, of the sample type asked for,
\* with a domain signal exactly when packets get time stamps. A change whose
\* unsubscription fails leaves the old preview under the new values
\* (propertyChanged): then, and until the values are in force, an error is shown
\* with the topic that was kept.
PreviewFollowsProperties ==
  \A b \in Blocks :
    pc[b] = "idle" =>
      \/ outputSignal[b] = createSignals(want[b].preview)
      \/ subscriptionErr[b] /\ topic[b] # NoTopic
=============================================================================
