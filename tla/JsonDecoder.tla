---------------------------- MODULE JsonDecoder ----------------------------
(***************************************************************************)
(* MqttJsonDecoderFbImpl: a message on the thread of the subscriber block  *)
(* against a change of a property on a thread of the user.                 *)
(*                                                                         *)
(* Both take the recursive configuration lock. What is outside of it is    *)
(* the test of configValid at the start of processMessage: the message is  *)
(* then processed under whatever configuration the lock is released with,  *)
(* and readProperties makes configValid TRUE for a moment in any case.     *)
(* All else under the lock is one action.                                  *)
(*                                                                         *)
(* Assumed of the SDK: a property is written and its event raised under    *)
(* the same lock; a value that is not in the selection list is refused.    *)
(***************************************************************************)
EXTENDS MqttDataWrapper, FiniteSets

CONSTANTS
  FieldNames,   \* values of ValueKey and DomainKey; "" is one
  Units,        \* values of Unit; "" is one
  Documents,    \* what messages can hold, see MqttDataWrapper
  Clock,        \* times at which messages arrive
  MaxChanges,   \* bound: property changes
  MaxMessages   \* bound: messages

Properties == [valueFieldName : FieldNames, tsMode : DomainSignalMode,
               tsFieldName : FieldNames, unitSymbol : Units]
Messages == [doc : Documents, externalTs : Clock]
NoMessage == [doc |-> <<>>, externalTs |-> 0]

ASSUME DecoderAssumption ==
  /\ Clock \subseteq Nat \ {0}
  /\ MaxChanges \in Nat /\ MaxMessages \in Nat

\* What has the form of a date is a string; what is no array is one element.
ASSUME DocumentsAssumption ==
  \A doc \in Documents : \A path \in DOMAIN doc.fields :
    LET elems == doc.fields[path].elems
    IN  /\ elems \in Seq([type : STRING, val : Int, form : STRING])
        /\ \A i \in DOMAIN elems : elems[i].form = "iso" => elems[i].type = "string"
        /\ doc.fields[path].array \in BOOLEAN
        /\ doc.fields[path].array \/ Len(elems) = 1

VARIABLES
  props,        \* what the properties hold
  config, configValid, waitingData, parsingSucceeded,
  externalTsDuplicate, lastExternalTs, componentStatus,
  outputSignal, \* name, unit and sample type of the signal, has it a domain
  prevConfig,   \* the configuration before the change that is going on
  stage,        \* how far the user's thread is under the lock, "idle" without
  processing,   \* the message whose configValid test has passed
  sent,         \* the packets of the last message
  crashed,      \* the process is gone
  changes,
  heard, lastTsBefore \* history: messages since the last change, time before

settings == <<config, prevConfig, props, changes>>
Stages == {"idle", "reading", "reconfiguring"}
flags == <<waitingData, parsingSucceeded, externalTsDuplicate, lastExternalTs>>
vars == <<props, config, configValid, waitingData, parsingSucceeded,
          externalTsDuplicate, lastExternalTs, componentStatus, outputSignal,
          prevConfig, stage, processing, sent, crashed, changes, heard, lastTsBefore>>

-----------------------------------------------------------------------------
\* readProperties: the name of the time stamp counts in one mode only.
Read(p) ==
  IF p.tsMode = "ExtractFromMessage" THEN p ELSE [p EXCEPT !.tsFieldName = ""]

Valid(c) ==
  /\ c.valueFieldName # ""
  /\ c.tsMode = "ExtractFromMessage" => c.tsFieldName # ""

\* updateStatuses, by what the flags say.
Status(valid, waiting, parsed, duplicate) ==
  IF ~valid THEN "Configuration is invalid"
  ELSE IF waiting THEN "Waiting for data"
  ELSE IF ~parsed THEN "Parsing failed"
  ELSE IF duplicate THEN "Domain value repeated" ELSE "Parsing succeeded"

createSignal(c) ==
  [name |-> c.valueFieldName, unit |-> c.unitSymbol, type |-> "Undefined",
   domain |-> c.tsMode # "None"]

\* parsingSucceeded has no initial value, and is not read before it gets one.
Init ==
  /\ props \in Properties
  /\ config = Read(props)
  /\ configValid = Valid(config)
  /\ waitingData = configValid
  /\ parsingSucceeded \in BOOLEAN
  /\ externalTsDuplicate = FALSE
  /\ lastExternalTs = 0
  /\ componentStatus = Status(configValid, waitingData, parsingSucceeded, FALSE)
  /\ outputSignal = createSignal(config)
  /\ prevConfig = config
  /\ stage = "idle"
  /\ processing = NoMessage
  /\ sent = <<>>
  /\ crashed = FALSE
  /\ changes = 0
  /\ heard = <<>>
  /\ lastTsBefore = 0

-----------------------------------------------------------------------------
\* One property is written; propertyChanged saves the configuration and
\* readProperties assumes that the new one is valid.
PropertyChanged(p) ==
  /\ ~crashed /\ stage = "idle" /\ changes < MaxChanges
  /\ Cardinality({k \in DOMAIN props : p[k] # props[k]}) = 1
  /\ props' = p
  /\ stage' = "reading"
  /\ prevConfig' = config
  /\ configValid' = TRUE
  /\ changes' = changes + 1
  /\ UNCHANGED <<config, flags, componentStatus, outputSignal, processing, sent,
                 crashed, heard, lastTsBefore>>

\* The bug of leaving the duplicate of an earlier configuration standing.
ReadPropertiesKeepingDuplicate ==
  /\ ~crashed /\ stage = "reading"
  /\ stage' = "reconfiguring"
  /\ config' = Read(props)
  /\ configValid' = Valid(config')
  /\ waitingData' = configValid'
  /\ componentStatus' = Status(configValid', waitingData', parsingSucceeded, FALSE)
  /\ heard' = <<>>
  /\ lastTsBefore' = lastExternalTs
  /\ UNCHANGED <<props, prevConfig, parsingSucceeded, lastExternalTs, outputSignal,
                 externalTsDuplicate, processing, sent, crashed, changes>>

\* The rest of readProperties.
ReadProperties ==
  /\ ~crashed /\ stage = "reading"
  /\ stage' = "reconfiguring"
  /\ config' = Read(props)
  /\ configValid' = Valid(config')
  /\ waitingData' = configValid'
  /\ externalTsDuplicate' = FALSE
  /\ componentStatus' = Status(configValid', waitingData', parsingSucceeded, FALSE)
  /\ heard' = <<>>
  /\ lastTsBefore' = lastExternalTs
  /\ UNCHANGED <<props, prevConfig, parsingSucceeded, lastExternalTs, outputSignal,
                 processing, sent, crashed, changes>>

\* reconfigureSignal. A new name or unit makes the sample type unknown again; an
\* empty unit is not written over the one the descriptor has.
Reconfigured ==
  LET described == \/ prevConfig.valueFieldName # config.valueFieldName
                   \/ prevConfig.unitSymbol # config.unitSymbol
  IN [name |-> config.valueFieldName,
      unit |-> IF described /\ config.unitSymbol # "" THEN config.unitSymbol
               ELSE outputSignal.unit,
      type |-> IF described THEN "Undefined" ELSE outputSignal.type,
      domain |-> config.tsMode # "None"]

\* reconfigureSignal, and the end of the lock.
ReconfigureSignal ==
  /\ ~crashed /\ stage = "reconfiguring"
  /\ stage' = "idle"
  /\ outputSignal' = Reconfigured
  /\ UNCHANGED <<settings, configValid, flags, componentStatus, processing, sent,
                 crashed, heard, lastTsBefore>>

\* processMessage up to its only look at configValid, without the lock.
ReceiveMessage(m) ==
  /\ ~crashed /\ processing = NoMessage /\ Len(heard) < MaxMessages
  /\ configValid
  /\ processing' = m
  /\ sent' = <<>>
  /\ UNCHANGED <<settings, configValid, flags, componentStatus, outputSignal,
                 stage, crashed, heard, lastTsBefore>>

\* checkExternalTs
Repeats(m) == config.tsMode = "ExternalTimestamp" /\ m.externalTs = lastExternalTs

\* The bug of processing a message without the lock.
LockUnused == TRUE

LockFree == stage = "idle"

\* The rest of processMessage under the lock: checkExternalTs, then
\* createAndSendDataPacket, which sets the descriptor's sample type to that of
\* the data before it makes the packets, then the status.
ProcessMessage ==
  /\ ~crashed /\ LockFree /\ processing # NoMessage
  /\ ~ReadsBeyondTicks(config, processing)
  /\ waitingData' = FALSE
  /\ parsingSucceeded' = Success(config, processing)
  /\ externalTsDuplicate' = (externalTsDuplicate \/ Repeats(processing))
  /\ lastExternalTs' = IF config.tsMode = "ExternalTimestamp"
                       THEN processing.externalTs ELSE lastExternalTs
  /\ sent' = buildPackets(config, outputSignal.domain, processing)
  /\ outputSignal' = IF sent' = <<>> THEN outputSignal
                     ELSE [outputSignal EXCEPT !.type = Values(config, processing.doc).type]
  /\ componentStatus' = Status(configValid, FALSE, parsingSucceeded', externalTsDuplicate')
  /\ heard' = Append(heard, [ok |-> parsingSucceeded', at |-> processing.externalTs])
  /\ processing' = NoMessage
  /\ UNCHANGED <<settings, configValid, stage, crashed, lastTsBefore>>

\* Strings under a configuration without a name for the time stamp: the process
\* reads through an empty vector.
ReadBeyondTicks ==
  /\ ~crashed /\ LockFree /\ processing # NoMessage
  /\ ReadsBeyondTicks(config, processing)
  /\ crashed' = TRUE
  /\ UNCHANGED <<settings, configValid, flags, componentStatus, outputSignal,
                 stage, processing, sent, heard, lastTsBefore>>

Next ==
  \/ \E p \in Properties : PropertyChanged(p)
  \/ ReadProperties
  \/ ReconfigureSignal
  \/ \E m \in Messages : ReceiveMessage(m)
  \/ ProcessMessage
  \/ ReadBeyondTicks

Spec == Init /\ [][Next]_vars

-----------------------------------------------------------------------------
(***************************************************************************)
(* What the decoder promises.                                              *)
(***************************************************************************)

\* The values a document has under a name, and the kinds they may be of.
ElementsAt(doc, path) ==
  IF doc.json = "object" /\ path \in DOMAIN doc.fields
  THEN doc.fields[path].elems ELSE <<>>

StandsAlone(doc, path) ==
  doc.json = "object" /\ path \in DOMAIN doc.fields /\ ~doc.fields[path].array

SameKind(elems) ==
  \/ \A i \in DOMAIN elems : elems[i].type \in {"int", "double"}
  \/ \A i \in DOMAIN elems : elems[i].type = "string"

\* Time stamps are all texts or all numbers; none is negative but a number that
\* stands alone.
Readable(doc, path) ==
  LET times == ElementsAt(doc, path)
  IN  \/ \A i \in DOMAIN times : times[i].type = "string"
      \/ /\ \A i \in DOMAIN times : times[i].type = "int"
         /\ StandsAlone(doc, path) \/ \A i \in DOMAIN times : times[i].val >= 0

\* The samples of a message: its values in order, each with its own time.
Promised(c, m) ==
  LET values == ElementsAt(m.doc, c.valueFieldName)
      times == ElementsAt(m.doc, c.tsFieldName)
      promised == /\ values # <<>> /\ SameKind(values)
                  /\ c.tsMode = "ExtractFromMessage" =>
                       Len(times) = Len(values) /\ Readable(m.doc, c.tsFieldName)
                  /\ c.tsMode = "ExternalTimestamp" => Len(values) = 1
      Time(i) == IF c.tsMode = "None" THEN {}
                 ELSE IF c.tsMode = "ExternalTimestamp" THEN {m.externalTs}
                 ELSE {toUnixTicks(times[i])}
      AllInts == \A i \in DOMAIN values : values[i].type = "int"
  IN IF ~promised THEN <<>>
     ELSE [i \in DOMAIN values |->
            <<IF AllInts THEN AsInt64(values[i]) ELSE values[i], Time(i)>>]

\* The samples in a sequence of packets, if every packet has as many time stamps
\* as values or no domain at all.
SamplesOf(packets) ==
  FlattenSeq([k \in DOMAIN packets |->
    [i \in DOMAIN packets[k].values |->
      <<packets[k].values[i],
        IF packets[k].domain THEN {packets[k].ticks[i]} ELSE {}>>]])

Aligned(packets) ==
  \A k \in DOMAIN packets :
    packets[k].domain => Len(packets[k].ticks) = Len(packets[k].values)

\* Under a valid configuration a message is published completely, each value
\* with its own time stamp, or not at all (extractDataSamples to sendDataSamples).
PublishedAsPromised ==
  [][configValid /\ processing # NoMessage /\ processing' = NoMessage =>
       Aligned(sent') /\ SamplesOf(sent') = Promised(config, processing)]_vars

\* The signal always fits what is sent over it: a listener sees the descriptor of
\* a packet before the packet, and a packet has time stamps exactly when the signal
\* has a domain signal and the configuration says where times come from. Breaks
\* when a change of the mode and a message overlap (buildDataPacket).
PacketsFitSignal ==
  \A k \in DOMAIN sent :
    (stage = "idle" /\ heard # <<>>) =>
      /\ sent[k].type = outputSignal.type
      /\ sent[k].domain <=> config.tsMode # "None"
      /\ outputSignal.domain <=> config.tsMode # "None"

\* A status is that of everything heard under the present configuration, whatever
\* the threads did in between: the last message decides, and a repeated time is
\* not forgotten over later messages (checkExternalTs, updateStatuses).
Judgement ==
  LET at(i) == IF i = 0 THEN lastTsBefore ELSE heard[i].at
      repeated == /\ config.tsMode = "ExternalTimestamp"
                  /\ \E i \in 1..Len(heard) : at(i) = at(i - 1)
  IN IF ~Valid(config) THEN "Configuration is invalid"
     ELSE IF heard = <<>> THEN "Waiting for data"
     ELSE IF ~Last(heard).ok THEN "Parsing failed"
     ELSE IF repeated THEN "Domain value repeated" ELSE "Parsing succeeded"

StatusFollowsMessages == stage = "idle" => componentStatus = Judgement

Configurations == {Read(p) : p \in Properties}

DecoderTypeOK ==
  /\ props \in Properties
  /\ config \in Configurations /\ prevConfig \in Configurations
  /\ stage \in Stages
  /\ configValid \in BOOLEAN /\ waitingData \in BOOLEAN
  /\ parsingSucceeded \in BOOLEAN /\ externalTsDuplicate \in BOOLEAN
  /\ crashed \in BOOLEAN
  /\ lastExternalTs \in Clock \cup {0} /\ lastTsBefore \in Clock \cup {0}
  /\ outputSignal \in [name : FieldNames, unit : Units \cup {""}, domain : BOOLEAN,
                       type : {"Undefined", "Int64", "Float64", "String"}]
  /\ processing \in Messages \cup {NoMessage}
  /\ changes \in 0..MaxChanges
  /\ heard \in Seq([ok : BOOLEAN, at : Clock]) /\ Len(heard) <= MaxMessages
=============================================================================
