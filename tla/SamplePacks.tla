---------------------------- MODULE SamplePacks ----------------------------
(***************************************************************************)
(* What the handlers of the publisher make of samples: messages of one     *)
(* sample or packs of PackSize, for each signal or for all of them with    *)
(* shared time stamps. Samples wait in a handler while ports, descriptors, *)
(* properties and errors change around them.                               *)
(*                                                                         *)
(* The kinds of handlers, as HandlerFactory makes them:                    *)
(*   "each"       RawHandler, AtomicSignalAtomicSampleHandler              *)
(*   "array"      AtomicSignalSampleArrayHandler                           *)
(*   "group"      GroupSignalSharedTsHandler                               *)
(*   "groupArray" GroupSignalSharedTsArrHandler                            *)
(* A callback, a property change and a turn of the reader thread hold      *)
(* processingMutex: one action each. (Publisher has the callbacks that are *)
(* late; here they come at once.) Of what validation looks at, the model   *)
(* has the sample types: the sample type can change at any time.           *)
(*                                                                         *)
(* Assumed of the SDK, as in Publisher: connecting and changing a          *)
(* descriptor put an event into the queue, a reader that is built finds    *)
(* one first. A reader gives rows: samples that all its ports have at the  *)
(* same tick, none from behind an event; older ones it drops.              *)
(***************************************************************************)
EXTENDS Integers, FiniteSets, SequencesExt

CONSTANTS
  Signals,
  Types,        \* sample types; those of allowedSampleTypes are Supported
  Supported,
  PackSize,     \* SamplesPerMessage, 1 at least
  BuffersSize,  \* rows that are read in one turn at most
  Kinds,        \* the kinds of handlers that occur
  MaxTick,      \* bound: ticks of the sampling clock
  MaxOps        \* bound, by kind: changes of ports, descriptors and properties

ASSUME PacksAssumption ==
  /\ Supported \subseteq Types /\ "event" \notin Types
  /\ Kinds \subseteq {"each", "array", "group", "groupArray"}
  /\ PackSize \in Nat \ {0} /\ BuffersSize \in Nat \ {0}
  /\ MaxTick \in Nat /\ MaxOps \in [Kinds -> Nat]

VARIABLES
  ports,    \* the connected signals, in the order of their ports
  queue,    \* of each signal: packets, and events where its descriptor changed
  live,     \* the sample type of each signal's descriptor
  kind, handler,
  hasSignalError, signalDescriptorChanged,
  sent,     \* the messages of the turn that has just ended
  latest,   \* history: the last tick published of each signal
  tick, ops

sdkVars == <<live, tick, ops>>
vars == <<ports, queue, kind, handler, hasSignalError, signalDescriptorChanged,
          sent, latest, sdkVars>>

\* FoldLeft over 1..n, as a function that can be reasoned about; what of xs is
\* in S; a list of lists as one.
Folded(step(_, _), base, n) ==
  LET upTo[i \in 0..n] == IF i = 0 THEN base ELSE step(upTo[i - 1], i)
  IN  upTo[n]
Filtered(xs, S) ==
  Folded(LAMBDA kept, i : IF xs[i] \in S THEN Append(kept, xs[i]) ELSE kept,
         <<>>, Len(xs))
Joined(lists) == Folded(LAMBDA all, i : all \o lists[i], <<>>, Len(lists))

-----------------------------------------------------------------------------
Event == [type |-> "event", ticks |-> <<>>]
IsEvent(p) == p.type = "event"

\* A sample, and the type it is written as.
Sample(s, t, type, as) == [signal |-> s, tick |-> t, type |-> type, as |-> as]

-----------------------------------------------------------------------------
(* SignalBuffer: the packets of one signal and how far they are used. *)

NoBuffer == [data |-> <<>>, dataSize |-> 0, offset |-> 0]

Push(b, p) == [b EXCEPT !.data = Append(@, p), !.dataSize = @ + Len(p.ticks)]

\* The bug of leaving a packet in the list when its last sample is taken.
getSampleKeeping(b) ==
  LET last == b.offset + 1 = Len(b.data[1].ticks)
  IN  [data |-> IF last /\ Len(b.data) > 1 THEN Tail(b.data) ELSE b.data,
       dataSize |-> b.dataSize - 1,
       offset |-> IF last THEN 0 ELSE b.offset + 1]

\* getSample: what it leaves of the buffer.
getSample(b) ==
  LET last == b.offset + 1 = Len(b.data[1].ticks)
  IN  [data |-> IF last THEN Tail(b.data) ELSE b.data,
       dataSize |-> b.dataSize - 1,
       offset |-> IF last THEN 0 ELSE b.offset + 1]

SampleAt(s, b) ==
  LET p == b.data[1] IN Sample(s, p.ticks[b.offset + 1], p.type, p.type)

Message(names, values, times) ==
  [fields |-> [i \in DOMAIN names |-> [name |-> names[i], values |-> values[i]]],
   times |-> times]

OfOneSignal(s, samples) ==
  Message(<<s>>, <<samples>>, [i \in DOMAIN samples |-> samples[i].tick])

\* toString: the next PackSize samples.
TakePack(s, b) ==
  Folded(LAMBDA st, i : [buffer |-> getSample(st.buffer),
                         pack |-> Append(st.pack, SampleAt(s, st.buffer))],
         [buffer |-> b, pack |-> <<>>], PackSize)

\* A message, as long as there is a pack.
OnePack(s, st) ==
  LET taken == TakePack(s, st.buffer)
  IN  IF st.buffer.dataSize < PackSize THEN st
      ELSE [buffer |-> taken.buffer,
            messages |-> Append(st.messages, OfOneSignal(s, taken.pack))]

\* processSignalContext of the array handler, for a data packet.
Collect(s, st, p) ==
  LET full == Push(st.buffer, p)
  IN  Folded(LAMBDA x, i : OnePack(s, x),
             [buffer |-> full, messages |-> st.messages], full.dataSize)

\* processSignalContext of the others: a message for each sample.
CollectEach(s, st, p) ==
  [st EXCEPT !.messages = @ \o [i \in DOMAIN p.ticks |->
     OfOneSignal(s, <<Sample(s, p.ticks[i], p.type, p.type)>>)]]

-----------------------------------------------------------------------------
(* StringDataBuilder and StringTsBuilder: whole packs, and the one begun. *)

NoBuilder == [values |-> <<>>, current |-> <<>>]

\* The bug of closing a pack one sample late.
AppendOneLate(b, x) ==
  IF Len(b.current) = PackSize
  THEN [values |-> Append(b.values, b.current), current |-> <<x>>]
  ELSE [b EXCEPT !.current = Append(@, x)]

\* The bug of beginning a pack with the last sample of the one before.
AppendOneOverlapping(b, x) ==
  LET c == Append(b.current, x)
  IN  IF Len(c) = PackSize
      THEN [values |-> Append(b.values, c), current |-> <<x>>]
      ELSE [b EXCEPT !.current = c]

AppendOne(b, x) ==
  LET c == Append(b.current, x)
  IN  IF Len(c) = PackSize
      THEN [values |-> Append(b.values, c), current |-> <<>>]
      ELSE [b EXCEPT !.current = c]

AppendAll(b, xs) == Folded(LAMBDA c, i : AppendOne(c, xs[i]), b, Len(xs))

\* getPack gives the first whole pack, or nothing.
getPack(b, i) == IF i <= Len(b.values) THEN b.values[i] ELSE <<>>
Without(b, n) == [b EXCEPT !.values = SubSeq(@, n + 1, Len(@))]

-----------------------------------------------------------------------------
(* A handler and what befalls it, on records of error, ports, handler, queue. *)

\* skewed, replaced: history, since the builders were made: values were left
\* out; the ports changed unannounced when samples were waiting.
NewHandler ==
  [reader |-> <<>>, firstDescriptorChange |-> TRUE,
   signalBuffers |-> [s \in Signals |-> NoBuffer],
   dataBuilders |-> <<>>, tsBuilder |-> NoBuilder,
   skewed |-> FALSE, replaced |-> FALSE]

Now == [error |-> hasSignalError, ports |-> ports, handler |-> handler,
        queue |-> queue]

\* The bug of clearing the builders of the signals and not that of the times.
initBuildersKeepingTimes(h, n) ==
  IF Len(h.dataBuilders) = n THEN h
  ELSE [h EXCEPT !.dataBuilders = [i \in 1..n |-> NoBuilder],
                 !.skewed = FALSE, !.replaced = FALSE]

initBuilders(h, n) ==
  IF Len(h.dataBuilders) = n THEN h
  ELSE [h EXCEPT !.dataBuilders = [i \in 1..n |-> NoBuilder],
                 !.tsBuilder = NoBuilder,
                 !.skewed = FALSE, !.replaced = FALSE]

createReader(st) ==
  [st EXCEPT
    !.handler = [@ EXCEPT !.reader = st.ports, !.firstDescriptorChange = TRUE],
    !.queue = [s \in Signals |-> IF s \in Range(st.ports)
                                 THEN <<Event>> \o @[s] ELSE @[s]]]

\* Buffers of connected signals are cleared, the others erased.
signalListChanged(st, k) ==
  IF k = "each" THEN st
  ELSE IF k = "array"
  THEN [st EXCEPT !.handler.signalBuffers = [s \in Signals |-> NoBuffer]]
  ELSE IF k = "group" THEN createReader(st)
  ELSE [createReader(st) EXCEPT !.handler = initBuilders(@, Len(st.ports))]

\* validateInputPorts: with no port connected the handler is told nothing.
validateInputPorts(st, k) ==
  LET ok == \A s \in Range(st.ports) : live[s] \in Supported
      told == st.ports # <<>> /\ ok
      changed == st.ports # st.handler.reader
      waiting == \E b \in Range(st.handler.dataBuilders) : b # NoBuilder
  IN  IF told THEN signalListChanged([st EXCEPT !.error = FALSE], k)
      ELSE [st EXCEPT !.error = ~ok,
                      !.handler.replaced = @ \/ (changed /\ waiting)]

-----------------------------------------------------------------------------
(* processSignalContexts *)

FirstEvent(q) == SelectInSeq(q, IsEvent)
BeforeEvent(q) == IF FirstEvent(q) = 0 THEN q
                  ELSE SubSeq(q, 1, FirstEvent(q) - 1)
AfterEvent(q) == IF FirstEvent(q) = 0 THEN <<>>
                 ELSE SubSeq(q, FirstEvent(q) + 1, Len(q))

processSignalDescriptorChanged(b) == NoBuffer

CollectAll(s, b, data, k) ==
  Folded(LAMBDA st, i : IF k = "each" THEN CollectEach(s, st, data[i])
                                      ELSE Collect(s, st, data[i]),
         [buffer |-> b, messages |-> <<>>], Len(data))

\* One signal up to the first event, which empties its buffer.
processSignalContext(s, b, q, k) ==
  LET read == CollectAll(s, b, BeforeEvent(q), k)
  IN  IF FirstEvent(q) = 0 THEN read
      ELSE [read EXCEPT !.buffer = processSignalDescriptorChanged(@)]

ProcessEach(st, k) ==
  LET on == Range(st.ports)
      of == [s \in on |-> processSignalContext(s, st.handler.signalBuffers[s],
                                               st.queue[s], k)]
  IN  [st |-> [st EXCEPT
                !.handler.signalBuffers = [s \in Signals |->
                   IF s \in on THEN of[s].buffer ELSE @[s]],
                !.queue = [s \in Signals |->
                   IF s \in on THEN AfterEvent(@[s]) ELSE @[s]]],
       messages |-> Joined([i \in DOMAIN st.ports |-> of[st.ports[i]].messages]),
       needRevalidation |-> \E s \in on : FirstEvent(st.queue[s]) # 0]

\* What the reader finds in a queue: the type of the sample at each tick.
TypeAt(q, t) ==
  LET p == CHOOSE p \in Range(BeforeEvent(q)) : t \in Range(p.ticks) IN p.type
TicksOf(q) == UNION {Range(p.ticks) : p \in Range(BeforeEvent(q))}

\* A queue without the samples up to t.
Beyond(q, t) ==
  LET later == [i \in DOMAIN q |->
                  [q[i] EXCEPT !.ticks = Filtered(@, {x \in Range(@) : x > t})]]
  IN  Filtered(later, {p \in Range(later) : IsEvent(p) \/ p.ticks # <<>>})

\* The samples of a row are written as the type that the descriptor has now.
Column(st, s, rows) ==
  [i \in DOMAIN rows |-> Sample(s, rows[i], TypeAt(st.queue[s], rows[i]), live[s])]

\* A message for each row; a value of another type reads "unsupported".
WriteRows(st, rows) ==
  [handler |-> st.handler,
   messages |-> [i \in DOMAIN rows |->
     Message(st.ports, [n \in DOMAIN st.ports |-> <<Column(st, st.ports[n], rows)[i]>>],
             <<rows[i]>>)]]

\* Rows go into the builders, times always and values of supported types; the
\* packs are taken out as long as there are packs of times.
CollectRows(st, rows) ==
  LET h == st.handler
      builders == [n \in DOMAIN h.dataBuilders |->
        IF live[st.ports[n]] \notin Supported THEN h.dataBuilders[n]
        ELSE AppendAll(h.dataBuilders[n], Column(st, st.ports[n], rows))]
      times == AppendAll(h.tsBuilder, rows)
      packs == Len(times.values)
  IN  [handler |-> [h EXCEPT
         !.dataBuilders = [n \in DOMAIN builders |-> Without(builders[n], packs)],
         !.tsBuilder = Without(times, packs),
         !.skewed = @ \/ \E s \in Range(st.ports) : live[s] \notin Supported],
       messages |-> [i \in 1..packs |->
         Message(st.ports, [n \in DOMAIN builders |-> getPack(builders[n], i)],
                 times.values[i])]]

\* processSignalContexts with a reader, and processEvents.
ProcessGroup(st, k) ==
  LET h == st.handler
      on == Range(h.reader)
      valid == on # {} /\ on \subseteq Range(st.ports)
      events == {s \in on : st.queue[s] # <<>> /\ IsEvent(st.queue[s][1])}
      readable == valid /\ events = {} /\ \A s \in on : st.queue[s] # <<>>
      common == IF readable THEN {t \in 1..MaxTick : \A s \in on : t \in TicksOf(st.queue[s])}
                ELSE {}
      all == Filtered([t \in 1..MaxTick |-> t], common)
      rows == SubSeq(all, 1, IF Len(all) > BuffersSize THEN BuffersSize ELSE Len(all))
      \* the reader drops what lies before the first tick all ports have
      start == CHOOSE t \in {st.queue[s][1].ticks[1] : s \in on} :
                 \A s \in on : st.queue[s][1].ticks[1] <= t
      upTo == IF rows = <<>> THEN start - 1 ELSE Last(rows)
      result == IF rows = <<>> THEN [handler |-> h, messages |-> <<>>]
                ELSE IF k = "group" THEN WriteRows(st, rows) ELSE CollectRows(st, rows)
  IN  [st |-> [st EXCEPT
                !.queue = [s \in Signals |->
                   IF s \in events /\ valid THEN Tail(@[s])
                   ELSE IF readable /\ s \in on THEN Beyond(@[s], upTo) ELSE @[s]],
                !.handler = [result.handler EXCEPT
                   !.firstDescriptorChange = @ /\ (events = {} \/ ~valid)]],
       messages |-> result.messages,
       needRevalidation |-> \/ on # {} /\ ~valid
                            \/ events # {} /\ ~h.firstDescriptorChange]

Process(st, k) ==
  IF k \in {"each", "array"} THEN ProcessEach(st, k) ELSE ProcessGroup(st, k)

-----------------------------------------------------------------------------
(* What happens. *)

Become(st) ==
  /\ hasSignalError' = st.error
  /\ ports' = st.ports
  /\ handler' = st.handler
  /\ queue' = st.queue

Count == ops < MaxOps[kind] /\ ops' = ops + 1
Quiet == sent' = <<>> /\ UNCHANGED latest

\* The next samples of all connected signals, in one packet each.
SendPackets(n) ==
  /\ ports # <<>> /\ tick + n <= MaxTick /\ tick' = tick + n
  /\ queue' = [s \in Signals |->
       IF s \notin Range(ports) THEN queue[s]
       ELSE Append(queue[s], [type |-> live[s], ticks |-> [i \in 1..n |-> tick + i]])]
  /\ Quiet
  /\ UNCHANGED <<ports, kind, handler, hasSignalError, signalDescriptorChanged,
                 live, ops>>

\* A core event is noted only while there is an error.
ChangeDescriptor(s, t) ==
  /\ Count /\ t # live[s]
  /\ live' = [live EXCEPT ![s] = t]
  /\ queue' = IF s \in Range(ports) THEN [queue EXCEPT ![s] = Append(@, Event)]
              ELSE queue
  /\ signalDescriptorChanged' =
       (signalDescriptorChanged \/ (s \in Range(ports) /\ hasSignalError))
  /\ Quiet
  /\ UNCHANGED <<ports, kind, handler, hasSignalError, tick>>

Connect(s) ==
  /\ Count /\ s \notin Range(ports)
  /\ Become(validateInputPorts(
       [Now EXCEPT !.ports = Append(@, s), !.queue[s] = <<Event>>], kind))
  /\ Quiet
  /\ UNCHANGED <<kind, signalDescriptorChanged, live, tick>>

Disconnect(s) ==
  /\ Count /\ s \in Range(ports)
  /\ Become(validateInputPorts(
       [Now EXCEPT !.ports = Filtered(@, Signals \ {s}), !.queue[s] = <<>>],
       kind))
  /\ Quiet
  /\ UNCHANGED <<kind, signalDescriptorChanged, live, tick>>

\* A property is written: another handler, that knows nothing.
PropertyChanged(k) ==
  /\ Count
  /\ kind' = k
  /\ Become(validateInputPorts([Now EXCEPT !.handler = NewHandler], k))
  /\ Quiet
  /\ UNCHANGED <<signalDescriptorChanged, live, tick>>

\* Where the samples of s are: which message, which field, which value.
PlacesOf(s, messages) ==
  {p \in UNION {{m} \X UNION {{f} \X DOMAIN messages[m].fields[f].values :
                               f \in DOMAIN messages[m].fields} :
                m \in DOMAIN messages} :
     messages[p[1]].fields[p[2][1]].values[p[2][2]].signal = s}
TickAt(messages, p) == messages[p[1]].fields[p[2][1]].values[p[2][2]].tick

\* A turn of readerLoop.
Turn ==
  LET flagged == hasSignalError /\ signalDescriptorChanged
      st1 == IF flagged THEN validateInputPorts(Now, kind) ELSE Now
      got == IF st1.error THEN [st |-> st1, messages |-> <<>>, needRevalidation |-> FALSE]
             ELSE Process(st1, kind)
      st2 == IF got.needRevalidation THEN validateInputPorts(got.st, kind) ELSE got.st
  IN  /\ Become(st2)
      /\ signalDescriptorChanged' = (signalDescriptorChanged /\ ~flagged)
      /\ sent' = got.messages
      /\ latest' = [s \in Signals |->
           Max({latest[s]} \cup {TickAt(sent', p) : p \in PlacesOf(s, sent')})]
      /\ UNCHANGED <<kind, sdkVars>>

Init ==
  /\ kind \in Kinds
  /\ live \in [Signals -> Types]
  /\ ports = <<>> /\ queue = [s \in Signals |-> <<>>]
  /\ handler = NewHandler
  /\ hasSignalError = FALSE /\ signalDescriptorChanged = FALSE
  /\ sent = <<>> /\ latest = [s \in Signals |-> 0]
  /\ tick = 0 /\ ops = 0

Next ==
  \/ \E n \in 1..2 : SendPackets(n)
  \/ \E s \in Signals, t \in Types : ChangeDescriptor(s, t)
  \/ \E s \in Signals : Connect(s) \/ Disconnect(s)
  \/ \E k \in Kinds : PropertyChanged(k)
  \/ Turn

Spec == Init /\ [][Next]_vars

-----------------------------------------------------------------------------
(* Properties. *)

Before(p, q) ==
  \/ p[1] < q[1]
  \/ p[1] = q[1] /\ (p[2][1] < q[2][1] \/ (p[2][1] = q[2][1] /\ p[2][2] < q[2][2]))

\* No sample is published twice or behind a later one, through all packs,
\* buffers and packets that were begun when ports, descriptors or the kind of
\* handler changed (getSample, getPack, createReaderInternal). Where a signal
\* took the port of another unannounced (see below), the pack that was begun
\* gives samples of both under both names, in the order of neither.
NeverTwice ==
  [][~handler'.replaced => \A s \in Signals : \A p, q \in PlacesOf(s, sent') :
       /\ latest[s] < TickAt(sent', p)
       /\ Before(p, q) => TickAt(sent', p) < TickAt(sent', q)]_vars

\* Each value of a message has its own time beside it and stands under the name
\* of its own signal; values of one signal's pack have one descriptor and are
\* written as that. In a pack of all signals this is so unless values of an
\* unsupported type were left out, or a signal took the port of another
\* unannounced, since the builders were made: what the code does then is to go
\* on with what is in them (initBuilders).
FieldsAreRows ==
  \A m \in Range(sent) : \A f \in Range(m.fields) :
    LET of == f.values
        grouped == kind \in {"group", "groupArray"}
    IN  /\ ~handler.skewed => [i \in DOMAIN of |-> of[i].tick] = m.times
        /\ ~handler.replaced => \A i \in DOMAIN of : of[i].signal = f.name
        /\ ~grouped => \A i \in DOMAIN of : of[i].as = of[1].type

\* Each value stands under the name of its own signal.
NamesTellTheSignal ==
  \A m \in Range(sent) : \A f \in Range(m.fields) :
    \A i \in DOMAIN f.values : f.values[i].signal = f.name

Total(data) == Folded(LAMBDA n, i : n + Len(data[i].ticks), 0, Len(data))
Begun(b) == b.values = <<>> /\ Len(b.current) < PackSize

\* Packs have the size README promises ("Sets the size of the sample pack") and
\* whole ones never wait: what a handler holds between turns is less than a
\* pack, and its counters agree with it.
LessThanAPackWaits ==
  /\ kind \in {"array", "groupArray"} =>
       \A m \in Range(sent) : Len(m.times) = PackSize
  /\ \A s \in Signals :
       LET b == handler.signalBuffers[s]
       IN  b.dataSize = Total(b.data) - b.offset /\ b.dataSize \in 0..PackSize - 1
  /\ Begun(handler.tsBuilder)
  /\ ~handler.skewed => \A b \in Range(handler.dataBuilders) : Begun(b)
=============================================================================
