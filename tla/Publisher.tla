----------------------------- MODULE Publisher -----------------------------
(***************************************************************************)
(* MqttPublisherFbImpl: input ports with signals on them, the signals it   *)
(* offers as previews, validation, the reader thread and the statuses.     *)
(*                                                                         *)
(* Everything the block does happens under processingMutex, so a callback, *)
(* a property change and a turn of the reader thread are one action each.  *)
(* What is not under it is the SDK: a signal is on a port (or off it)      *)
(* before onConnected (onDisconnected) is called, and a descriptor or name *)
(* has changed before the core event is delivered. The callbacks that are  *)
(* still to come are the set "due"; they come from different threads, in   *)
(* any order, and turns of the reader happen in between.                   *)
(*                                                                         *)
(* Validation is left by an exception when it asks for what a signal has   *)
(* not (see Unreadable). Out of a callback or a property change it goes to *)
(* whoever caused that, and what was still to be done is not done; nobody  *)
(* catches it in the reader thread, and the program ends ("failed").       *)
(*                                                                         *)
(* Assumed of the SDK: connecting puts a descriptor packet at the head of  *)
(* the port's queue; a change of the signal's descriptor or of what its    *)
(* domain signal is appends one, but a core event of the signal tells of   *)
(* the former only; a reader that is built on a port finds the last        *)
(* descriptor first; it reads data when all its ports have some. Removing  *)
(* a signal that is gone has no effect. A callback that ends with an       *)
(* exception leaves the signal on the port, or off it, and a property its  *)
(* new value. Ports are not rewired while the block is being removed.      *)
(***************************************************************************)
EXTENDS Integers, FiniteSets, SequencesExt

CONSTANTS
  Signals,   \* the signals that can be put on ports
  NoSignal,  \* what is on a free port
  Names,     \* names of signals
  Kinds,     \* the descriptors that signals can have: see KindsType
  Settings,  \* the property values the block can be given: see SettingsType
  MaxPort,   \* bound: the last index of a port that gets a signal
  MaxOps,    \* bound: changes of ports, descriptors, names and properties
  MaxData    \* bound: data packets sent

\* single: JSON mode with one topic for all signals (a Group handler); raw: Raw
\* mode; neither: JSON mode with a topic for each signal. There is no preview in
\* Raw mode. byName: fields are named by the name of the signal.
SettingsType ==
  {c \in [single : BOOLEAN, raw : BOOLEAN, byName : BOOLEAN, preview : BOOLEAN,
          topic : {"valid", "invalid", "empty"}] :
     c.raw => ~c.single /\ ~c.preview}

\* What a signal is like: its own descriptor (none, an array, or a number), and
\* what it has as domain: one with a linear rule in seconds, at one of two
\* rates; a linear one of a unit or type that does not fit; a domain signal
\* without descriptor ("blank"); no domain signal, or one whose rule has no
\* "delta" ("plain").
KindsType == [value : {"number", "array", "none"},
              domain : {"fast", "slow", "unfit", "blank", "plain"}]

ASSUME PublisherAssumption ==
  /\ NoSignal \notin Signals
  /\ Kinds \subseteq KindsType
  /\ Settings \subseteq SettingsType
  /\ MaxPort \in Nat /\ MaxOps \in Nat /\ MaxData \in Nat

Indexes == 0..MaxPort + 1
NoPort == -1

VARIABLES
  plugged, queue, descriptor, name, due, ops, sent,      \* the SDK's side
  signalContexts, commonPreviewSignal, ownPreviews,      \* ports and previews
  signalMap, registered, topics,
  config, handler,
  hasSignalError, hasSkippedMsg,
  signalDescriptorChanged, signalAttributeChanged,
  status, stage, failed,
  twice, stale                                           \* history

\* stale has what the block has not brought up to date: the flag of validation
\* and the statuses ("validation") and the topics ("topics"), where an exception
\* left a callback or property change half done, until they are set again; and
\* that under an error a domain has changed, which it is not told of ("domain"),
\* until it validates for another reason. twice: a signal was on two ports.
Unfinished == {"validation", "topics", "domain"}

sdkVars == <<plugged, descriptor, name, ops, sent>>
flagVars == <<signalDescriptorChanged, signalAttributeChanged>>
portVars == <<commonPreviewSignal, ownPreviews, signalMap, registered, topics>>
\* What Now and Become stand for.
coreVars == <<signalContexts, hasSignalError, hasSkippedMsg, handler, queue,
              failed>>
vars == <<sdkVars, due, flagVars, portVars, coreVars, config, status, stage,
          twice, stale>>

-----------------------------------------------------------------------------
(* Settings and validation. *)

hasSettingError(c) == c.single /\ c.topic = "invalid"
hasEmptyTopic(c) == c.single /\ c.topic = "empty"

Connected(c) == plugged[c.index] # NoSignal

\* The connected ports, in their order: what SelectSeq(contexts, Connected) is,
\* written as a function that proofs can unfold.
ConnectedOf(contexts) ==
  LET upTo[i \in 0..Len(contexts)] ==
        IF i = 0 THEN <<>>
        ELSE IF Connected(contexts[i]) THEN Append(upTo[i - 1], contexts[i])
        ELSE upTo[i - 1]
  IN  upTo[Len(contexts)]

SignalsOn(contexts) ==
  LET on == ConnectedOf(contexts)
  IN  [i \in DOMAIN on |-> plugged[on[i].index]]

\* The domains that the handlers are content with.
FitDomains(c) ==
  IF c.raw THEN {"fast", "slow", "unfit", "blank", "plain"}
  ELSE IF c.single THEN {"fast", "slow"} ELSE {"fast", "slow", "plain"}

\* validateSignalContexts of the handlers, where no exception leaves it.
Accepts(contexts, c) ==
  LET s == SignalsOn(contexts)
  IN  /\ IsInjective(s)
      /\ \A i \in DOMAIN s : /\ descriptor[s[i]].value = "number"
                             /\ descriptor[s[i]].domain \in FitDomains(c)
      /\ c.single => \A i, j \in DOMAIN s :
           descriptor[s[i]].domain = descriptor[s[j]].domain
      /\ c.single /\ c.byName =>
           IsInjective([i \in DOMAIN s |-> name[s[i]]])

\* What calculateRatio makes of a domain. (One that does not fit has a rate
\* too; it is taken to be that of the fast ones.)
Ratio(domain) == IF domain = "slow" THEN "slow" ELSE "fast"

\* validateSignalContexts is left by an exception: a signal has no descriptor,
\* or the Group handler, which has noted down that the domain is missing or not
\* linear, asks all the same for its ratio. It stops asking at a signal with
\* another ratio than the first.
Unreadable(contexts, c) ==
  LET s == SignalsOn(contexts)
      domain(i) == descriptor[s[i]].domain
  IN  \E i \in DOMAIN s :
        \/ descriptor[s[i]].value = "none"
        \/ /\ c.single /\ domain(i) \in {"blank", "plain"}
           /\ \A j \in 1..(i - 1) : Ratio(domain(j)) = Ratio(domain(1))

\* A handler with its reader: the ports it reads, how many buffers it has, and
\* firstDescriptorChange. The handlers for one signal have no reader.
NoReader == [ports |-> <<>>, buffers |-> 0, first |-> TRUE]

Now == [contexts |-> signalContexts, error |-> hasSignalError,
        skipped |-> hasSkippedMsg, handler |-> handler, queue |-> queue,
        failed |-> failed]

Become(st) ==
  /\ signalContexts' = st.contexts
  /\ hasSignalError' = st.error
  /\ hasSkippedMsg' = st.skipped
  /\ handler' = st.handler
  /\ queue' = st.queue
  /\ failed' = st.failed

\* There is a port without signal before the last one: onDisconnected is due.
Gap(contexts) == \E i \in 1..(Len(contexts) - 1) : ~Connected(contexts[i])

\* createReader: it reads the ports that are connected, but has a buffer for
\* each port but one. (A gap among those ports ends it with an exception, at the
\* last thing it does.)
SignalListChanged(st) ==
  LET on == ConnectedOf(st.contexts)
      ports == [i \in DOMAIN on |-> on[i].index]
  IN  [st EXCEPT
        !.handler = [ports |-> ports, buffers |-> Len(st.contexts) - 1,
                     first |-> TRUE],
        !.queue = [p \in Indexes |-> IF p \in Range(ports)
                                     THEN <<"event">> \o @[p] ELSE @[p]]]

\* Mutant of ValidateInputPorts: the handler is told of the ports only when
\* they have become valid.
ValidateOnlyTransitions(st, c) ==
  LET ok == Accepts(st.contexts, c)
      checked == [st EXCEPT !.error = ~ok, !.skipped = FALSE]
  IN  IF Len(st.contexts) = 1
      THEN [st EXCEPT !.error = FALSE, !.skipped = FALSE]
      ELSE IF Unreadable(st.contexts, c) THEN [st EXCEPT !.skipped = FALSE]
      ELSE IF ok /\ st.error /\ c.single
           THEN SignalListChanged(checked) ELSE checked

\* With one port there is nothing to validate: it is taken to be free.
ValidateInputPorts(st, c) ==
  LET ok == Accepts(st.contexts, c)
      checked == [st EXCEPT !.error = ~ok, !.skipped = FALSE]
  IN  IF Len(st.contexts) = 1
      THEN [st EXCEPT !.error = FALSE, !.skipped = FALSE]
      ELSE IF Unreadable(st.contexts, c) THEN [st EXCEPT !.skipped = FALSE]
      ELSE IF ok /\ c.single THEN SignalListChanged(checked) ELSE checked

\* An exception leaves validateInputPorts.
Throws(contexts, c) ==
  /\ Len(contexts) # 1
  /\ \/ Unreadable(contexts, c)
     \/ c.single /\ Accepts(contexts, c) /\ Gap(contexts)

-----------------------------------------------------------------------------
(* Ports and previews. *)

\* Mutant of ClearPorts: a new port is numbered by how many there are.
ClearPortsCounting(contexts) ==
  LET kept == ConnectedOf(contexts)
  IN  Append(kept, [index |-> Len(kept), preview |-> "none"])

\* clearPorts: free ports go, one free port is added at the end.
ClearPorts(contexts) ==
  LET kept == ConnectedOf(contexts)
      index == IF kept = <<>> THEN 0 ELSE Last(kept).index + 1
  IN  Append(kept, [index |-> index, preview |-> "none"])

\* Mutant of PreviewFor: the common preview counts as the port's own.
PreviewForAssigned(c, set) ==
  IF ~Connected(c) THEN c.preview
  ELSE IF ~set.preview THEN "none"
  ELSE IF set.single THEN "common"
  ELSE IF c.preview = "none" THEN "own" ELSE c.preview

\* The preview of a port after the loop of updatePortsAndSignals, which leaves
\* ports without signal alone.
PreviewFor(c, set) ==
  IF ~Connected(c) THEN c.preview
  ELSE IF ~set.preview THEN "none"
  ELSE IF set.single THEN "common"
  ELSE IF c.preview = "none" \/ (commonPreviewSignal /\ c.preview = "common")
       THEN "own" ELSE c.preview

WithPreviews(contexts, set) ==
  [i \in DOMAIN contexts |->
     [contexts[i] EXCEPT !.preview = PreviewFor(contexts[i], set)]]

Elements(contexts) == {contexts[i] : i \in DOMAIN contexts}
Owners(contexts) == {c.index : c \in {d \in contexts : d.preview = "own"}}

\* A port that is removed is not the port a new one gets the index of.
Forget(h) ==
  [h EXCEPT !.ports = [i \in DOMAIN @ |->
     IF @[i] # NoPort /\ plugged[@[i]] = NoSignal THEN NoPort ELSE @[i]]]

\* Mutant of UpdateCoreEventCallbacks: the callbacks of the whole old map are
\* cleared, those of signals that stay included.
UpdateCallbacksClearAll(contexts) ==
  LET s == SignalsOn(contexts)
      on(x) == Cardinality({i \in DOMAIN s : s[i] = x})
  IN  /\ signalMap' = Range(s)
      /\ registered' = [x \in Signals |->
           IF x \in signalMap THEN registered[x] - 1
                              ELSE registered[x] + on(x)]

\* Mutant of UpdateCoreEventCallbacks: signals that stay are registered anew.
UpdateCallbacksAnew(contexts) ==
  LET s == SignalsOn(contexts)
      on(x) == Cardinality({i \in DOMAIN s : s[i] = x})
  IN  /\ signalMap' = Range(s)
      /\ registered' = [x \in Signals |-> registered[x] + on(x) -
           (IF x \in signalMap \ Range(s) THEN 1 ELSE 0)]

\* updateCoreEventCallbacks: a signal that is in the old map keeps its
\* callback at the first port it is on; at every other port it gets one.
UpdateCoreEventCallbacks(contexts) ==
  LET s == SignalsOn(contexts)
      on(x) == Cardinality({i \in DOMAIN s : s[i] = x})
  IN  /\ signalMap' = Range(s)
      /\ registered' = [x \in Signals |->
           registered[x] + on(x) - (IF x \in signalMap THEN 1 ELSE 0)]

\* The signals that updatePortsAndSignals removes and adds: those of the ports
\* that clearPorts removes ("gone") and of the ports whose preview changes.
UpdatePortsAndSignals(gone, contexts, set) ==
  LET with == WithPreviews(contexts, set)
      changed == {i \in DOMAIN contexts : with[i] # contexts[i]}
      was == Owners({contexts[i] : i \in changed})
      is == Owners({with[i] : i \in changed})
  IN  /\ ownPreviews' = ((ownPreviews \ Owners(gone)) \ was) \cup is
      /\ commonPreviewSignal' = (set.preview /\ set.single)
      /\ UpdateCoreEventCallbacks(contexts)

\* getTopics: the topic of each connected signal, or the one topic.
TopicsOf(contexts, set) ==
  IF set.single THEN <<"topic">> ELSE SignalsOn(contexts)

-----------------------------------------------------------------------------
(* Statuses. *)

Component(st, set) ==
  IF st.error \/ hasSettingError(set) THEN "Error"
  ELSE IF Len(st.contexts) = 1 \/ hasEmptyTopic(set) \/ st.skipped
       THEN "Warning" ELSE "Ok"

StatusOf(st, set) ==
  [signal |-> IF st.error THEN "Invalid"
              ELSE IF Len(st.contexts) = 1 THEN "NotConnected" ELSE "Valid",
   setting |-> IF hasSettingError(set) THEN "Invalid" ELSE "Valid",
   publishing |-> IF st.skipped THEN "SampleSkipped" ELSE "Ok",
   component |-> Component(st, set)]

\* Mutant of PublishingStatus: the component does not follow.
PublishingStatusOnly(old, st, set) ==
  [old EXCEPT !.publishing = StatusOf(st, set).publishing]

\* updatePublishingStatus: the component's status follows only a change.
PublishingStatus(old, st, set) ==
  LET new == StatusOf(st, set).publishing
  IN  IF new = old.publishing THEN old
      ELSE [old EXCEPT !.publishing = new, !.component = Component(st, set)]

-----------------------------------------------------------------------------
(* What the SDK and its users do. *)

Live == stage = "live" /\ ~failed
Count == ops < MaxOps /\ ops' = ops + 1
DuePorts == {p \in Indexes : <<"connected", p>> \in due \/
                             <<"disconnected", p>> \in due}

Connect(p, s) ==
  /\ Live /\ Count
  /\ \E i \in DOMAIN signalContexts : signalContexts[i].index = p
  /\ p <= MaxPort /\ plugged[p] = NoSignal /\ p \notin DuePorts
  /\ plugged' = [plugged EXCEPT ![p] = s]
  /\ queue' = [queue EXCEPT ![p] = <<"event">>]
  /\ due' = due \cup {<<"connected", p>>}
  /\ twice' = (twice \/ \E q \in Indexes : plugged[q] = s)
  /\ UNCHANGED <<descriptor, name, sent, flagVars, portVars, signalContexts,
                 hasSignalError, hasSkippedMsg, handler, failed, config,
                 status, stage, stale>>

Disconnect(p) ==
  /\ Live /\ Count
  /\ plugged[p] # NoSignal /\ p \notin DuePorts
  /\ plugged' = [plugged EXCEPT ![p] = NoSignal]
  /\ queue' = [queue EXCEPT ![p] = <<>>]
  /\ due' = due \cup {<<"disconnected", p>>}
  /\ UNCHANGED <<descriptor, name, sent, flagVars, portVars, signalContexts,
                 hasSignalError, hasSkippedMsg, handler, failed, config,
                 status, stage, twice, stale>>

\* A core event of s is delivered only to callbacks that are registered.
\* The thread that changes s delivers it before it changes s again.
Notify(s, what) ==
  /\ <<"descriptor", s>> \notin due /\ <<"name", s>> \notin due
  /\ due' = IF registered[s] > 0 THEN due \cup {<<what, s>>} ELSE due

Enqueue(s, packet) ==
  queue' = [p \in Indexes |-> IF plugged[p] = s THEN Append(queue[p], packet)
                                                ELSE queue[p]]

\* The signal's own descriptor changes.
ChangeDescriptor(s, d) ==
  /\ Live /\ Count
  /\ d # descriptor[s] /\ d.domain = descriptor[s].domain
  /\ descriptor' = [descriptor EXCEPT ![s] = d]
  /\ Enqueue(s, "event") /\ Notify(s, "descriptor")
  /\ UNCHANGED <<plugged, name, sent, flagVars, portVars, signalContexts,
                 hasSignalError, hasSkippedMsg, handler, failed, config,
                 status, stage, twice, stale>>

\* The domain signal, or its descriptor, changes. The block has its callback on
\* the signal, and of the signal's attributes it heeds the name alone.
ChangeDomain(s, d) ==
  /\ Live /\ Count
  /\ d # descriptor[s] /\ d.value = descriptor[s].value
  /\ descriptor' = [descriptor EXCEPT ![s] = d]
  /\ Enqueue(s, "event")
  /\ stale' = IF hasSignalError /\ \E p \in Indexes : plugged[p] = s
              THEN stale \cup {"domain"} ELSE stale
  /\ UNCHANGED <<plugged, name, sent, due, flagVars, portVars, signalContexts,
                 hasSignalError, hasSkippedMsg, handler, failed, config,
                 status, stage, twice>>

Rename(s, n) ==
  /\ Live /\ Count
  /\ n # name[s] /\ name' = [name EXCEPT ![s] = n]
  /\ Notify(s, "name")
  /\ UNCHANGED <<plugged, descriptor, sent, flagVars, portVars, coreVars,
                 config, status, stage, twice, stale>>

SendPacket(s) ==
  /\ Live /\ sent < MaxData /\ sent' = sent + 1
  /\ Enqueue(s, "data")
  /\ UNCHANGED <<plugged, descriptor, name, ops, due, flagVars, portVars,
                 signalContexts, hasSignalError, hasSkippedMsg, handler,
                 failed, config, status, stage, twice, stale>>

-----------------------------------------------------------------------------
(* What the block does. *)

\* What follows validation in a callback or a property change, unless an
\* exception has ended it: topics and statuses.
Conclude(contexts, st, set) ==
  IF Throws(contexts, set)
  THEN /\ stale' = stale \cup {"validation", "topics"}
       /\ UNCHANGED <<topics, status>>
  ELSE /\ stale' = {}
       /\ topics' = TopicsOf(contexts, set)
       /\ status' = StatusOf(st, set)

\* onConnected and onDisconnected have the same body.
PortsChanged(callback) ==
  /\ ~failed /\ callback \in due /\ due' = due \ {callback}
  /\ LET contexts == ClearPorts(signalContexts)
         with == WithPreviews(contexts, config)
         st == ValidateInputPorts(
                 [Now EXCEPT !.contexts = with,
                             !.handler = Forget(handler)], config)
         gone == {c \in Elements(signalContexts) : ~Connected(c)}
     IN  /\ UpdatePortsAndSignals(gone, contexts, config)
         /\ Become(st)
         /\ Conclude(with, st, config)
  /\ UNCHANGED <<sdkVars, flagVars, config, stage, twice>>

OnConnected(p) == PortsChanged(<<"connected", p>>)
OnDisconnected(p) == PortsChanged(<<"disconnected", p>>)

\* A property is written: a new handler, and all that follows from it.
PropertyChanged(set) ==
  /\ Live /\ Count /\ set # config
  /\ config' = set
  /\ LET with == WithPreviews(signalContexts, set)
         st == ValidateInputPorts(
                 [Now EXCEPT !.contexts = with, !.handler = NoReader], set)
     IN  /\ UpdatePortsAndSignals({}, signalContexts, set)
         /\ Become(st)
         /\ Conclude(with, st, set)
  /\ UNCHANGED <<plugged, descriptor, name, sent, due, flagVars, stage, twice>>

CoreEventCallback(s, what) ==
  /\ ~failed /\ <<what, s>> \in due /\ due' = due \ {<<what, s>>}
  /\ signalDescriptorChanged' =
       (signalDescriptorChanged \/
          (what = "descriptor" /\ s \in signalMap /\ hasSignalError))
  /\ signalAttributeChanged' =
       (signalAttributeChanged \/ (what = "name" /\ s \in signalMap))
  /\ UNCHANGED <<sdkVars, portVars, coreVars, config, status, stage, twice,
                 stale>>

\* processSignalContexts of the handlers for one signal: each connected port
\* is read to the end, or to the first descriptor packet.
ProcessEach(st) ==
  LET first(p) == SelectInSeq(st.queue[p], LAMBDA x : x = "event")
      read == {p \in Indexes : /\ plugged[p] # NoSignal
                               /\ \E i \in DOMAIN st.contexts :
                                    st.contexts[i].index = p}
  IN  [st |-> [st EXCEPT !.queue = [p \in Indexes |->
                 IF p \notin read THEN @[p]
                 ELSE IF first(p) = 0 THEN <<>>
                 ELSE SubSeq(@[p], first(p) + 1, Len(@[p]))]],
       messages |-> \E p \in read : first(p) # 1 /\ st.queue[p] # <<>>,
       needRevalidation |-> \E p \in read : first(p) # 0]

\* Mutant of ProcessGroup: firstDescriptorChange is never cleared.
ProcessGroupAlwaysFirst(st) ==
  LET ports == Range(st.handler.ports)
      valid == \A p \in ports : p # NoPort /\ plugged[p] # NoSignal
      at(what) == {p \in ports \ {NoPort} :
                     st.queue[p] # <<>> /\ Head(st.queue[p]) = what}
      without(read) == [p \in Indexes |-> IF p \in read
                                          THEN Tail(st.queue[p])
                                          ELSE st.queue[p]]
  IN  [st |-> [st EXCEPT !.queue = without(at("event"))],
       messages |-> FALSE, needRevalidation |-> ~valid]

\* processSignalContexts of the handlers for all signals. The first
\* descriptor packets that a new reader finds are not a change. What is read
\* needs a buffer for each port that is read and for each port but one of the
\* block, which all have a signal with a descriptor.
ProcessGroup(st) ==
  LET ports == Range(st.handler.ports)
      valid == \A p \in ports : p # NoPort /\ plugged[p] # NoSignal
      at(what) == {p \in ports \ {NoPort} :
                     st.queue[p] # <<>> /\ Head(st.queue[p]) = what}
      without(read) == [p \in Indexes |-> IF p \in read
                                          THEN Tail(st.queue[p])
                                          ELSE st.queue[p]]
      data == ports # {} /\ at("event") = {} /\ valid /\ at("data") = ports
      change == at("event") # {}
  IN  [st |-> [st EXCEPT
                !.queue = IF change THEN without(at("event"))
                          ELSE IF data THEN without(ports) ELSE @,
                !.handler.first = @ /\ ~change,
                !.failed = data /\
                  \/ Len(st.handler.ports) > st.handler.buffers
                  \/ Len(st.contexts) - 1 > st.handler.buffers
                  \/ Gap(st.contexts)
                  \/ \E s \in Range(SignalsOn(st.contexts)) :
                       descriptor[s].value = "none"],
       messages |-> data,
       needRevalidation |-> (change /\ ~st.handler.first) \/ ~valid]

Process(st) == IF config.single THEN ProcessGroup(st) ELSE ProcessEach(st)

NothingRead(st) ==
  [st |-> st, messages |-> FALSE, needRevalidation |-> FALSE]

\* One turn of readerLoop. skip: the client refuses one of the messages.
ReaderLoop(skip) ==
  /\ ~failed /\ stage = "live"
  /\ LET flagged == \/ hasSignalError /\ signalDescriptorChanged
                    \/ signalAttributeChanged
         throws == Throws(signalContexts, config)
         st1 == IF flagged THEN ValidateInputPorts(Now, config) ELSE Now
         old1 == IF flagged THEN StatusOf(st1, config) ELSE status
         got == IF st1.error \/ hasSettingError(config) \/ (flagged /\ throws)
                THEN NothingRead(st1) ELSE Process(st1)
         st2 == IF got.needRevalidation
                THEN ValidateInputPorts(got.st, config) ELSE got.st
         old2 == IF got.needRevalidation THEN StatusOf(st2, config) ELSE old1
         validates == flagged \/ got.needRevalidation
         st3 == [st2 EXCEPT !.skipped = @ \/ skip,
                            !.failed = @ \/ (validates /\ throws)]
     IN  /\ skip => got.messages
         /\ Become(st3)
         /\ status' = PublishingStatus(old2, st3, config)
         /\ signalDescriptorChanged' = (signalDescriptorChanged /\ ~flagged)
         /\ signalAttributeChanged' = (signalAttributeChanged /\ ~flagged)
         /\ stale' = IF validates THEN stale \ {"validation", "domain"}
                                  ELSE stale
  /\ UNCHANGED <<sdkVars, due, portVars, config, stage, twice>>

\* removed: the reader thread is joined, the callbacks are taken back, and the
\* handler is released.
RemovedJoin ==
  /\ Live /\ DuePorts = {}
  /\ stage' = "joined"
  /\ UNCHANGED <<sdkVars, due, flagVars, portVars, coreVars, config, status,
                 twice, stale>>

RemovedClear ==
  /\ ~failed /\ stage = "joined" /\ stage' = "cleared"
  /\ registered' = [s \in Signals |->
                      registered[s] - (IF s \in signalMap THEN 1 ELSE 0)]
  /\ signalMap' = {}
  /\ UNCHANGED <<sdkVars, due, flagVars, commonPreviewSignal, ownPreviews,
                 topics, coreVars, config, status, twice, stale>>

RemovedRelease ==
  /\ ~failed /\ stage = "cleared" /\ stage' = "gone"
  /\ handler' = NoReader
  /\ UNCHANGED <<sdkVars, due, flagVars, portVars, signalContexts,
                 hasSignalError, hasSkippedMsg, queue, failed, config, status,
                 twice, stale>>

Gone == (failed \/ (stage = "gone" /\ due = {})) /\ UNCHANGED vars

-----------------------------------------------------------------------------
\* What the constructor leaves: one free port, and no signal.
Init ==
  /\ config \in Settings
  /\ plugged = [p \in Indexes |-> NoSignal]
  /\ queue = [p \in Indexes |-> <<>>]
  /\ descriptor \in [Signals -> Kinds]
  /\ name \in [Signals -> Names]
  /\ due = {} /\ ops = 0 /\ sent = 0
  /\ signalContexts = <<[index |-> 0, preview |-> "none"]>>
  /\ commonPreviewSignal = (config.preview /\ config.single)
  /\ ownPreviews = {} /\ signalMap = {} /\ topics = <<>>
  /\ registered = [s \in Signals |-> 0]
  /\ handler = NoReader
  /\ hasSignalError = FALSE /\ hasSkippedMsg = FALSE
  /\ signalDescriptorChanged = FALSE /\ signalAttributeChanged = FALSE
  /\ stage = "live" /\ failed = FALSE /\ twice = FALSE /\ stale = {}
  /\ status = StatusOf(Now, config)

Environment ==
  \/ \E p \in Indexes, s \in Signals : Connect(p, s)
  \/ \E p \in Indexes : Disconnect(p)
  \/ \E s \in Signals, d \in Kinds : \/ ChangeDescriptor(s, d)
                                     \/ ChangeDomain(s, d)
  \/ \E s \in Signals, n \in Names : Rename(s, n)
  \/ \E s \in Signals : SendPacket(s)

Callback ==
  \/ \E p \in Indexes : OnConnected(p) \/ OnDisconnected(p)
  \/ \E s \in Signals : \/ CoreEventCallback(s, "descriptor")
                        \/ CoreEventCallback(s, "name")

Next ==
  \/ Environment \/ Callback
  \/ \E set \in Settings : PropertyChanged(set)
  \/ \E skip \in BOOLEAN : ReaderLoop(skip)
  \/ RemovedJoin \/ RemovedClear \/ RemovedRelease \/ Gone

Spec == Init /\ [][Next]_vars

-----------------------------------------------------------------------------
(* Properties. *)

Contexts == Seq([index : Indexes, preview : {"none", "own", "common"}])

TypeOK ==
  /\ plugged \in [Indexes -> Signals \cup {NoSignal}]
  /\ queue \in [Indexes -> Seq({"event", "data"})]
  /\ descriptor \in [Signals -> Kinds] /\ name \in [Signals -> Names]
  /\ due \subseteq ({"connected", "disconnected"} \X Indexes) \cup
                   ({"descriptor", "name"} \X Signals)
  /\ signalContexts \in Contexts /\ signalContexts # <<>>
  /\ ownPreviews \subseteq Indexes /\ commonPreviewSignal \in BOOLEAN
  /\ signalMap \subseteq Signals /\ registered \in [Signals -> Nat]
  /\ config \in Settings
  /\ handler \in [ports : Seq(Indexes \cup {NoPort}), buffers : Nat,
                   first : BOOLEAN]
  /\ {hasSignalError, hasSkippedMsg, signalDescriptorChanged,
      signalAttributeChanged, failed, twice} \subseteq BOOLEAN
  /\ stage \in {"live", "joined", "cleared", "gone"}
  /\ stale \subseteq Unfinished

\* The callbacks for ports are all delivered: the block knows its ports.
Settled == Live /\ DuePorts = {}

\* "The order in the list is the same as the input ports order": when the
\* block knows its ports there is one free port, the last, indexes ascend (a
\* new port never takes the name of another), the topics are those of the
\* signals in the order of their ports, where no exception has come before them.
PortsInOrder ==
  Settled =>
    LET n == Len(signalContexts)
    IN  /\ \A i \in 1..n : Connected(signalContexts[i]) <=> i < n
        /\ \A i, j \in 1..n :
             i < j => signalContexts[i].index < signalContexts[j].index
        /\ ~config.single /\ "topics" \notin stale =>
             topics = SignalsOn(signalContexts)

\* The block offers the previews README.md promises, one for all signals or
\* one for each connected port, and no port holds one that is not offered.
PreviewsMatchPorts ==
  Settled =>
    /\ commonPreviewSignal <=> config.preview /\ config.single
    /\ ownPreviews = Owners(Elements(signalContexts))
    /\ \A c \in Elements(signalContexts) :
         c.preview = IF ~Connected(c) \/ ~config.preview THEN "none"
                     ELSE IF config.single THEN "common" ELSE "own"

\* A port's queue holds a descriptor packet that a handler will take for a
\* change: a new reader ignores the first.
UnreadChange(p) ==
  /\ plugged[p] # NoSignal
  /\ Cardinality({i \in DOMAIN queue[p] : queue[p][i] = "event"}) >
       (IF p \in Range(handler.ports) /\ handler.first THEN 1 ELSE 0)

\* No change is lost: if hasSignalError is not what validation would say now,
\* then something is on its way that makes the block validate again. While
\* there is an error that is a flag or a core event, without it a packet. The
\* two ways in which the code does lose one are excused, and until it validates
\* again only: an exception left validation, a domain changed under an error.
NoChangeLost ==
  /\ Live /\ stale \cap {"validation", "domain"} = {}
  /\ hasSignalError # ~Accepts(signalContexts, config)
  =>
    \/ DuePorts # {}
    \/ signalAttributeChanged \/ \E s \in signalMap : <<"name", s>> \in due
    \/ /\ hasSignalError
       /\ \/ signalDescriptorChanged
          \/ \E s \in signalMap : <<"descriptor", s>> \in due
    \/ ~hasSignalError /\ \E p \in Indexes : UnreadChange(p)

\* The four statuses say what the flags say, whatever path changed them: a
\* revalidation inside a turn, a message that was refused, a property. (An
\* exception out of validation leaves them as they were.)
StatusesFollowFlags ==
  ~failed /\ "validation" \notin stale => status = StatusOf(Now, config)

\* A Group handler that may process reads exactly the ports that have signals,
\* in their order, with a buffer for each: no way of changing ports, settings
\* or validity leaves an older reader in place, but an exception.
ReaderMatchesPorts ==
  /\ Settled /\ config.single /\ ~hasSignalError /\ Len(signalContexts) > 1
  /\ "validation" \notin stale
  =>
    LET n == Len(signalContexts) - 1
    IN  /\ handler.buffers = n
        /\ handler.ports = [i \in 1..n |-> signalContexts[i].index]

\* A signal in signalMap calls back. Where no signal was ever on two ports, it
\* calls back once, and nothing does after the block has been removed.
CallbacksMatchMap ==
  \A s \in Signals :
    /\ s \in signalMap => registered[s] > 0
    /\ ~twice => registered[s] = IF s \in signalMap THEN 1 ELSE 0
    /\ stage \in {"cleared", "gone"} => s \notin signalMap

\* "signalContexts always contain an unconnected input port", says the comment
\* in createReaderInternal, which counts on it for its buffers: there are as
\* many as ports to be read.
BufferForEveryPort == Len(handler.ports) <= handler.buffers

=============================================================================
