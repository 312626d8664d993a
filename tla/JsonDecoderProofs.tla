-------------------------- MODULE JsonDecoderProofs --------------------------
(***************************************************************************)
(* Proofs about JsonDecoder, for any field names, units and documents, and *)
(* any number of property changes and messages.                            *)
(***************************************************************************)
EXTENDS JsonDecoder, TLAPS, WellFoundedInduction

SampleTypes == {"Int64", "Float64", "String"}

\* A message that is being processed has been counted.
TInv ==
  /\ DecoderTypeOK
  /\ processing # NoMessage => Len(heard) < MaxMessages

\* While the lock is free the flags are those of the configuration and of the
\* messages heard under it.
Flags ==
  /\ configValid <=> Valid(config)
  /\ waitingData <=> Valid(config) /\ heard = <<>>
  /\ heard # <<>> => (parsingSucceeded <=> heard[Len(heard)].ok)
  /\ componentStatus =
       Status(configValid, waitingData, parsingSucceeded, externalTsDuplicate)

TsOf(i) == IF i = 0 THEN lastTsBefore ELSE heard[i].at

Times ==
  /\ config.tsMode = "ExternalTimestamp" => lastExternalTs = TsOf(Len(heard))
  /\ config.tsMode # "ExternalTimestamp" => lastExternalTs = lastTsBefore
  /\ externalTsDuplicate <=>
       /\ config.tsMode = "ExternalTimestamp"
       /\ \E i \in 1..Len(heard) : TsOf(i) = TsOf(i - 1)

FInv ==
  /\ stage # "reading" => Flags /\ Times
  /\ stage = "reconfiguring" => heard = <<>>

PInv ==
  /\ PacketsFitSignal
  /\ stage = "idle" => (outputSignal.domain <=> config.tsMode # "None")

-----------------------------------------------------------------------------
(* The data of a message. *)

LEMMA NoMessageIsNone == NoMessage \notin Messages
  BY DecoderAssumption DEF NoMessage, Messages

LEMMA ValuesTyped ==
  ASSUME NEW c, NEW doc, Values(c, doc).ok
  PROVE  Values(c, doc).type \in SampleTypes /\ Values(c, doc).ok \in BOOLEAN
  <1>1. CASE Values(c, doc) = Nothing
    BY <1>1 DEF Nothing
  <1>2. CASE Values(c, doc) # Nothing
    <2>1. Values(c, doc) = extractValue(Found(doc, c.valueFieldName)[1])
      BY <1>2 DEF Values, Extract
    <2> DEFINE node == Found(doc, c.valueFieldName)[1]
    <2>2. extractValue(node) # Nothing
      BY <1>2, <2>1
    <2>3. detectArrayValueType(node.elems) \in SampleTypes
      BY <2>2 DEF extractValue, detectArrayValueType, SampleTypes
    <2> QED
      BY <2>1, <2>2, <2>3 DEF extractValue
  <1> QED
    BY <1>1, <1>2

\* All packets of a message have the type of its values, and a domain when the
\* signal and the mode have one.
LEMMA PacketsAlike ==
  ASSUME NEW c, NEW domain \in BOOLEAN, NEW m,
         NEW k \in DOMAIN buildPackets(c, domain, m)
  PROVE  /\ Values(c, m.doc).type \in SampleTypes
         /\ buildPackets(c, domain, m)[k].type = Values(c, m.doc).type
         /\ buildPackets(c, domain, m)[k].domain = (domain /\ c.tsMode # "None")
  <1> DEFINE value == Values(c, m.doc)
             ts == IF c.tsMode = "ExternalTimestamp" THEN <<m.externalTs>>
                   ELSE Ticks(c, m.doc).items
             dom == domain /\ c.tsMode # "None"
  <1>1. Success(c, m)
    BY DEF buildPackets
  <1>2. buildPackets(c, domain, m) = buildDataPackets(value.type, dom, value.items, ts)
    BY <1>1 DEF buildPackets
  <1>3. value.type \in SampleTypes
    BY <1>1, ValuesTyped DEF Success, validateExtractionResult
  <1> HIDE DEF value, ts, dom
  <1>4. ASSUME NEW d, NEW v, NEW t, NEW j \in DOMAIN buildDataPackets(value.type, d, v, t)
        PROVE  /\ buildDataPackets(value.type, d, v, t)[j].type = value.type
               /\ buildDataPackets(value.type, d, v, t)[j].domain = d
    <2>1. CASE value.type = "String"
      BY <2>1 DEF buildDataPackets
    <2>2. CASE value.type # "String"
      BY <2>2 DEF buildDataPackets
    <2> QED
      BY <2>1, <2>2
  <1> QED
    BY <1>2, <1>3, <1>4 DEF value, dom

-----------------------------------------------------------------------------
(* Types. *)

LEMMA ReadTyped ==
  ASSUME NEW p \in Properties
  PROVE  Read(p).unitSymbol = p.unitSymbol /\ Read(p).valueFieldName = p.valueFieldName
         /\ Read(p).tsMode = p.tsMode
  BY DEF Read, Properties

SignalType == [name : FieldNames, unit : Units \cup {""}, domain : BOOLEAN,
               type : {"Undefined", "Int64", "Float64", "String"}]

FlagsTyped ==
  /\ configValid \in BOOLEAN /\ waitingData \in BOOLEAN
  /\ parsingSucceeded \in BOOLEAN /\ externalTsDuplicate \in BOOLEAN
  /\ crashed \in BOOLEAN

DataTyped ==
  /\ props \in Properties
  /\ config \in Configurations /\ prevConfig \in Configurations
  /\ stage \in Stages
  /\ lastExternalTs \in Clock \cup {0} /\ lastTsBefore \in Clock \cup {0}
  /\ outputSignal \in SignalType
  /\ processing \in Messages \cup {NoMessage}
  /\ changes \in 0..MaxChanges
  /\ heard \in Seq([ok : BOOLEAN, at : Clock]) /\ Len(heard) <= MaxMessages
  /\ processing # NoMessage => Len(heard) < MaxMessages

LEMMA TypedParts == TInv <=> FlagsTyped /\ DataTyped
  BY DEF TInv, DecoderTypeOK, FlagsTyped, DataTyped, SignalType

LEMMA BooleanOperators ==
  /\ \A c : Valid(c) \in BOOLEAN
  /\ \A c, m : Success(c, m) \in BOOLEAN
  /\ \A m : Repeats(m) \in BOOLEAN
  BY DEF Valid, Success, validateExtractionResult, Repeats

LEMMA FlagsStayTyped == ASSUME FlagsTyped, [Next]_vars PROVE FlagsTyped'
  <1> USE BooleanOperators DEF FlagsTyped, flags
  <1>1. ASSUME NEW p \in Properties, PropertyChanged(p) PROVE FlagsTyped'
    BY <1>1, Zenon DEF PropertyChanged
  <1>2. CASE ReadProperties
    BY <1>2, Zenon DEF ReadProperties
  <1>3. CASE ReconfigureSignal
    BY <1>3, Zenon DEF ReconfigureSignal
  <1>4. ASSUME NEW m \in Messages, ReceiveMessage(m) PROVE FlagsTyped'
    BY <1>4, Zenon DEF ReceiveMessage
  <1>5. CASE ProcessMessage
    <2>1. externalTsDuplicate' \in BOOLEAN
      BY <1>5 DEF ProcessMessage
    <2> QED
      BY <1>5, <2>1, Zenon DEF ProcessMessage
  <1>6. CASE ReadBeyondTicks
    BY <1>6, Zenon DEF ReadBeyondTicks
  <1>7. CASE UNCHANGED vars
    BY <1>7, Zenon DEF vars
  <1> QED
    BY <1>1, <1>2, <1>3, <1>4, <1>5, <1>6, <1>7 DEF Next

LEMMA DataStaysTyped == ASSUME FlagsTyped, DataTyped, [Next]_vars PROVE DataTyped'
  <1> USE DecoderAssumption DEF DataTyped, Stages, flags
  <1>1. ASSUME NEW p \in Properties, PropertyChanged(p) PROVE DataTyped'
    BY <1>1 DEF PropertyChanged
  <1>2. CASE ReadProperties
    BY <1>2 DEF ReadProperties, Configurations
  <1>3. CASE ReconfigureSignal
    <2>1. Reconfigured \in SignalType
      <3>1. /\ config.valueFieldName \in FieldNames /\ config.unitSymbol \in Units
            /\ (config.tsMode # "None") \in BOOLEAN
        BY ReadTyped DEF Configurations, Properties
      <3> QED
        BY <3>1 DEF Reconfigured, SignalType
    <2> QED
      BY <1>3, <2>1 DEF ReconfigureSignal, settings
  <1>4. ASSUME NEW m \in Messages, ReceiveMessage(m) PROVE DataTyped'
    BY <1>4, NoMessageIsNone DEF ReceiveMessage, settings
  <1>5. CASE ProcessMessage
    <2>1. processing \in Messages /\ processing.externalTs \in Clock
      BY <1>5 DEF ProcessMessage, Messages
    <2>2. outputSignal' \in SignalType
      <3>1. CASE sent' = <<>>
        BY <1>5, <3>1 DEF ProcessMessage
      <3>2. CASE sent' # <<>>
        <4>1. Success(config, processing)
          BY <1>5, <3>2 DEF ProcessMessage, buildPackets
        <4>2. Values(config, processing.doc).type \in SampleTypes
          BY <4>1, ValuesTyped DEF Success, validateExtractionResult
        <4> QED
          BY <1>5, <3>2, <4>2 DEF ProcessMessage, SampleTypes, SignalType
      <3> QED
        BY <3>1, <3>2
    <2>3. PICK r \in [ok : BOOLEAN, at : Clock] : heard' = Append(heard, r)
      <3>1. [ok |-> parsingSucceeded', at |-> processing.externalTs]
              \in [ok : BOOLEAN, at : Clock]
        BY <1>5, <2>1, BooleanOperators DEF ProcessMessage
      <3> QED
        BY <1>5, <3>1 DEF ProcessMessage
    <2>4. /\ heard' \in Seq([ok : BOOLEAN, at : Clock])
          /\ Len(heard') = Len(heard) + 1 /\ Len(heard) < MaxMessages
      BY <1>5, <2>3 DEF ProcessMessage
    <2> QED
      BY <1>5, <2>1, <2>2, <2>4 DEF ProcessMessage, settings
  <1>6. CASE ReadBeyondTicks
    BY <1>6 DEF ReadBeyondTicks, settings
  <1>7. CASE UNCHANGED vars
    BY <1>7 DEF vars
  <1> QED
    BY <1>1, <1>2, <1>3, <1>4, <1>5, <1>6, <1>7 DEF Next

THEOREM DecoderTyped == Spec => []TInv
  <1>1. Init => FlagsTyped
    BY BooleanOperators, Zenon DEF Init, FlagsTyped
  <1>2. Init => DataTyped
    <2> SUFFICES ASSUME Init PROVE DataTyped
      OBVIOUS
    <2>1. config \in Configurations
      BY DEF Init, Configurations
    <2>2. createSignal(config) \in SignalType
      BY ReadTyped DEF Init, createSignal, Properties, SignalType
    <2> QED
      BY <2>1, <2>2, DecoderAssumption DEF Init, DataTyped, Stages
  <1>3. TInv /\ [Next]_vars => TInv'
    BY TypedParts, FlagsStayTyped, DataStaysTyped DEF FlagsTyped, DataTyped, TInv,
       DecoderTypeOK, SignalType
  <1> QED
    BY <1>1, <1>2, <1>3, TypedParts, PTL DEF Spec

\* Every variable of the decoder keeps its type (of all of JsonDecoder).
THEOREM TypeCorrect == Spec => []DecoderTypeOK
  <1>1. TInv => DecoderTypeOK
    BY DEF TInv
  <1> QED
    BY <1>1, DecoderTyped, PTL

-----------------------------------------------------------------------------
(* The status. *)

LEMMA TimesStart ==
  ASSUME TInv', heard' = <<>>, lastExternalTs' = lastTsBefore', ~externalTsDuplicate'
  PROVE  Times'
  BY DEF Times, TsOf

\* A message adds its verdict and its time to what has been heard.
LEMMA HeardAdvances ==
  ASSUME TInv, ProcessMessage
  PROVE  /\ Len(heard) \in Nat /\ Len(heard') = Len(heard) + 1 /\ heard' # <<>>
         /\ heard'[Len(heard) + 1].ok = parsingSucceeded'
         /\ heard'[Len(heard) + 1].at = processing.externalTs
         /\ \A i \in 1..Len(heard) : heard'[i] = heard[i]
  <1> DEFINE r == [ok |-> parsingSucceeded', at |-> processing.externalTs]
             R == [ok : BOOLEAN, at : Clock]
  <1>1. processing \in Messages
    BY DEF ProcessMessage, TInv, DecoderTypeOK
  <1>2. r \in R
    BY <1>1, BooleanOperators DEF ProcessMessage, Messages
  <1>3. heard \in Seq(R) /\ heard' = Append(heard, r)
    BY DEF ProcessMessage, TInv, DecoderTypeOK
  <1>4. r.ok = parsingSucceeded' /\ r.at = processing.externalTs
    OBVIOUS
  <1> HIDE DEF r, R
  <1> QED
    BY <1>2, <1>3, <1>4

LEMMA TimesAdvance ==
  ASSUME TInv, Times, ProcessMessage
  PROVE  Times'
  <1> DEFINE at == processing.externalTs
  <1>0. PICK n \in Nat : n = Len(heard)
    BY HeardAdvances
  <1>1. /\ Len(heard) = n /\ Len(heard') = n + 1 /\ heard'[n + 1].at = at
        /\ \A i \in 1..n : heard'[i] = heard[i]
    BY <1>0, HeardAdvances
  <1>2. config' = config /\ lastTsBefore' = lastTsBefore
    BY DEF ProcessMessage, settings
  <1>3. TsOf(n + 1)' = at /\ \A i \in 0..n : TsOf(i)' = TsOf(i)
    BY <1>1, <1>2 DEF TsOf
  <1>4. CASE config.tsMode = "ExternalTimestamp"
    <2>1. lastExternalTs' = at /\ lastExternalTs = TsOf(n)
      BY <1>1, <1>4 DEF ProcessMessage, Times
    <2>2. externalTsDuplicate' <=> externalTsDuplicate \/ at = TsOf(n)
      BY <1>4, <2>1 DEF ProcessMessage, Repeats
    <2>3. externalTsDuplicate <=> \E i \in 1..n : TsOf(i) = TsOf(i - 1)
      BY <1>1, <1>4 DEF Times
    <2>4. TsOf(n + 1)' = TsOf(n)' <=> at = TsOf(n)
      BY <1>1, <1>3
    <2>5. \A i \in 1..n : TsOf(i)' = TsOf(i - 1)' <=> TsOf(i) = TsOf(i - 1)
      BY <1>1, <1>3
    <2>6. (\E i \in 1..n + 1 : TsOf(i)' = TsOf(i - 1)')
            <=> TsOf(n + 1)' = TsOf(n)' \/ \E i \in 1..n : TsOf(i)' = TsOf(i - 1)'
      <3>1. \A i \in 1..n + 1 : i = n + 1 \/ i \in 1..n
        BY <1>1
      <3>2. n + 1 \in 1..n + 1 /\ (n + 1) - 1 = n /\ 1..n \subseteq 1..n + 1
        BY <1>1
      <3> QED
        BY <3>1, <3>2
    <2>7. externalTsDuplicate' <=> \E i \in 1..n + 1 : TsOf(i)' = TsOf(i - 1)'
      BY <2>2, <2>3, <2>4, <2>5, <2>6
    <2>8. lastExternalTs' = TsOf(n + 1)'
      BY <1>3, <2>1
    <2> QED
      BY <1>1, <1>2, <1>4, <2>7, <2>8 DEF Times
  <1>5. CASE config.tsMode # "ExternalTimestamp"
    BY <1>2, <1>5 DEF ProcessMessage, Times, Repeats
  <1> QED
    BY <1>4, <1>5

LEMMA FlagsAdvance ==
  ASSUME TInv, Flags, ProcessMessage
  PROVE  Flags'
  <1>1. /\ Len(heard') \in Nat \ {0} /\ heard' # <<>>
        /\ heard'[Len(heard')].ok = parsingSucceeded'
    BY HeardAdvances
  <1>2. /\ config' = config /\ configValid' = configValid /\ waitingData' = FALSE
        /\ componentStatus' =
             Status(configValid, FALSE, parsingSucceeded', externalTsDuplicate')
    BY DEF ProcessMessage, settings
  <1>3. Valid(config)' <=> Valid(config)
    BY <1>2
  <1> QED
    BY <1>1, <1>2, <1>3 DEF Flags

LEMMA StatusStarts == Init => FInv
  <1> SUFFICES ASSUME Init PROVE FInv
    OBVIOUS
  <1>1. heard = <<>> /\ 1..Len(heard) = {} /\ Len(heard) = 0
    BY DEF Init
  <1>2. Flags
    BY <1>1, BooleanOperators, Zenon DEF Init, Flags
  <1>3. Times
    BY <1>1 DEF Init, Times, TsOf
  <1>4. stage = "idle"
    BY DEF Init
  <1> QED
    BY <1>2, <1>3, <1>4 DEF FInv

LEMMA StatusInductive == ASSUME TInv, TInv', FInv, [Next]_vars PROVE FInv'
  <1> USE DEF FInv
  <1>1. ASSUME NEW p \in Properties, PropertyChanged(p) PROVE FInv'
    BY <1>1 DEF PropertyChanged
  <1>2. CASE ReadProperties
    <2>1. Times'
      BY <1>2, TimesStart DEF ReadProperties
    <2>2. Flags'
      BY <1>2 DEF ReadProperties, Flags
    <2> QED
      BY <1>2, <2>1, <2>2 DEF ReadProperties
  <1>3. CASE ProcessMessage
    BY <1>3, TimesAdvance, FlagsAdvance DEF ProcessMessage, LockFree
  <1>4. ASSUME /\ UNCHANGED <<config, configValid, flags, componentStatus, heard,
                             lastTsBefore>>
               /\ stage' \in {stage, "idle"} /\ (stage' = "idle" => stage # "reading")
        PROVE  FInv'
    BY <1>4 DEF flags, Flags, Times, TsOf
  <1>5. CASE ReconfigureSignal
    BY <1>4, <1>5 DEF ReconfigureSignal, settings
  <1>6. ASSUME NEW m \in Messages, ReceiveMessage(m) PROVE FInv'
    BY <1>6, <1>4 DEF ReceiveMessage, settings
  <1>7. CASE ReadBeyondTicks
    BY <1>4, <1>7 DEF ReadBeyondTicks, settings, LockFree
  <1>8. CASE UNCHANGED vars
    BY <1>8 DEF vars, flags, Flags, Times, TsOf
  <1> QED
    BY <1>1, <1>2, <1>3, <1>5, <1>6, <1>7, <1>8 DEF Next

\* Between two property changes the status is the judgement of all messages heard
\* under the present configuration (updateStatuses, checkExternalTs).
THEOREM StatusIsJudgement == Spec => []StatusFollowsMessages
  <1>1. Init => FInv
    BY StatusStarts
  <1>2. TInv /\ TInv' /\ FInv /\ [Next]_vars => FInv'
    BY StatusInductive
  <1>3. TInv /\ FInv => StatusFollowsMessages
    <2> SUFFICES ASSUME TInv, FInv, stage = "idle" PROVE componentStatus = Judgement
      BY DEF StatusFollowsMessages
    <2>1. Flags /\ Times
      BY DEF FInv
    <2>2. heard # <<>> => Last(heard) = heard[Len(heard)]
      BY DEF Last
    <2>3. (\E i \in 1..Len(heard) : TsOf(i) = TsOf(i - 1))
            <=> \E i \in 1..Len(heard) :
                  (IF i = 0 THEN lastTsBefore ELSE heard[i].at)
                    = (IF i - 1 = 0 THEN lastTsBefore ELSE heard[i - 1].at)
      BY DEF TsOf
    <2> QED
      BY <2>1, <2>2, <2>3 DEF Flags, Times, Status, Judgement
  <1> QED
    BY <1>1, <1>2, <1>3, DecoderTyped, PTL DEF Spec

-----------------------------------------------------------------------------
(* The packets. *)

\* Under the lock the signal has a domain when the mode asks for one.
LEMMA PacketsInductive == ASSUME TInv, TInv', FInv, PInv, [Next]_vars PROVE PInv'
  <1> USE DEF PInv, PacketsFitSignal
  <1>1. ASSUME NEW p \in Properties, PropertyChanged(p) PROVE PInv'
    BY <1>1 DEF PropertyChanged
  <1>2. CASE ReadProperties
    BY <1>2 DEF ReadProperties
  <1>3. CASE ReconfigureSignal
    <2>1. heard' = <<>> /\ config' = config
      BY <1>3 DEF ReconfigureSignal, FInv, settings
    <2>2. outputSignal'.domain = (config.tsMode # "None")
      BY <1>3 DEF ReconfigureSignal, Reconfigured
    <2> QED
      BY <2>1, <2>2
  <1>4. ASSUME NEW m \in Messages, ReceiveMessage(m) PROVE PInv'
    BY <1>4 DEF ReceiveMessage, settings
  <1>5. CASE ProcessMessage
    <2> DEFINE domain == outputSignal.domain
               stamped == config.tsMode # "None"
    <2>1. /\ stage = "idle" /\ config' = config
          /\ sent' = buildPackets(config, domain, processing)
          /\ domain \in BOOLEAN /\ (domain <=> stamped)
      BY <1>5 DEF ProcessMessage, LockFree, settings, TInv, DecoderTypeOK
    <2>2. outputSignal'.domain = domain
      BY <1>5 DEF ProcessMessage, TInv, DecoderTypeOK
    <2>3. ASSUME NEW k \in DOMAIN sent'
          PROVE  /\ sent'[k].type = outputSignal'.type
                 /\ sent'[k].domain <=> stamped
      <3>1. /\ sent'[k].type = Values(config, processing.doc).type
            /\ sent'[k].domain = (domain /\ stamped)
        BY <2>1, <2>3, PacketsAlike
      <3>2. outputSignal'.type = Values(config, processing.doc).type
        <4>1. sent' # <<>>
          BY <2>3
        <4> QED
          BY <1>5, <4>1 DEF ProcessMessage, TInv, DecoderTypeOK
      <3> QED
        BY <2>1, <3>1, <3>2
    <2> QED
      BY <2>1, <2>2, <2>3
  <1>6. CASE ReadBeyondTicks
    BY <1>6 DEF ReadBeyondTicks, settings
  <1>7. CASE UNCHANGED vars
    BY <1>7 DEF vars
  <1> QED
    BY <1>1, <1>2, <1>3, <1>4, <1>5, <1>6, <1>7 DEF Next

LEMMA PacketsStart == Init => PInv
  <1> SUFFICES ASSUME Init PROVE PInv
    OBVIOUS
  <1>1. outputSignal.domain = (config.tsMode # "None") /\ heard = <<>>
    BY DEF Init, createSignal
  <1> QED
    BY <1>1 DEF PInv, PacketsFitSignal

\* Every packet has the type of the signal, and time stamps exactly when the
\* signal and the configuration have a domain (buildDataPacket, reconfigureSignal).
THEOREM PacketsFit == Spec => []PacketsFitSignal
  <1>1. Init => FInv
    BY StatusStarts
  <1>2. TInv /\ TInv' /\ FInv /\ [Next]_vars => FInv'
    BY StatusInductive
  <1>3. Init => PInv
    BY PacketsStart
  <1>4. TInv /\ TInv' /\ FInv /\ PInv /\ [Next]_vars => PInv'
    BY PacketsInductive
  <1>5. PInv => PacketsFitSignal
    BY DEF PInv
  <1> QED
    BY <1>1, <1>2, <1>3, <1>4, <1>5, DecoderTyped, PTL DEF Spec

-----------------------------------------------------------------------------
(* Lists: induction, and what FlattenSeq makes of lists of one. *)

\* A set of natural numbers that is not empty has a least element.
LEMMA LeastElement ==
  ASSUME NEW T, T \subseteq Nat, T # {}
  PROVE  \E n \in T : \A m \in T : n <= m
<1> DEFINE R == OpToRel(<, Nat)
<1>1. \A x, y \in Nat : <<x, y>> \in R <=> x < y
  BY DEF OpToRel
<1>2. IsWellFoundedOn(R, Nat)
  BY NatLessThanWellFounded
<1> HIDE DEF R
<1>3. PICK n \in T : \A m \in T : ~ (<<m, n>> \in R)
  BY <1>2, WFMin
<1>4. n \in Nat /\ \A m \in T : m \in Nat /\ ~ (m < n)
  BY <1>1, <1>3
<1> QED
  BY <1>4

\* One list alone, and lists of one element each, become one list.
LEMMA FlattenOne ==
  ASSUME NEW X, NEW s \in Seq(X)
  PROVE  FlattenSeq(<<s>>) = s
<1> DEFINE n == 1
           Is(f) == f = [i \in 1..1 |-> IF i = 1 THEN <<s>>[i] ELSE f[i - 1] \o <<s>>[i]]
           flatten == CHOOSE f : Is(f)
<1>1. Is([i \in 1..1 |-> s])
  OBVIOUS
<1>2. Is(flatten)
  BY <1>1
<1>3. Len(<<s>>) = 1
  OBVIOUS
<1>4. FlattenSeq(<<s>>) = flatten[1]
  BY <1>3 DEF FlattenSeq
<1> HIDE DEF flatten
<1> QED
  BY <1>2, <1>4

LEMMA FlattenNone == FlattenSeq(<<>>) = <<>>
  BY DEF FlattenSeq

LEMMA FlattenSingles ==
  ASSUME NEW n \in Nat, NEW x
  PROVE  FlattenSeq([i \in 1..n |-> <<x[i]>>]) = [i \in 1..n |-> x[i]]
<1> DEFINE seqs == [i \in 1..n |-> <<x[i]>>]
           First(i) == [j \in 1..i |-> x[j]]
           Is(f) == f = [i \in 1..n |-> IF i = 1 THEN seqs[i] ELSE f[i - 1] \o seqs[i]]
           flatten == CHOOSE f : Is(f)
           S == {i \in 1..n : flatten[i] # First(i)}
<1>1. \A i \in 1..n : i # 1 => First(i) = First(i - 1) \o <<x[i]>>
  <2>1. SUFFICES ASSUME NEW i \in 1..n, i # 1
                 PROVE  First(i) = First(i - 1) \o <<x[i]>>
    OBVIOUS
  <2> DEFINE X == {x[j] : j \in 1..i}
  <2>2. First(i) \in Seq(X) /\ First(i - 1) \in Seq(X) /\ <<x[i]>> \in Seq(X)
    <3>1. \A k \in 0..i : First(k) \in [1..k -> X]
      OBVIOUS
    <3> HIDE DEF X
    <3>2. \A k \in 0..i : [1..k -> X] \subseteq Seq(X)
      OBVIOUS
    <3>3. i - 1 \in 0..i /\ i \in 0..i
      OBVIOUS
    <3>4. x[i] \in X
      BY DEF X
    <3> QED
      BY <3>1, <3>2, <3>3, <3>4
  <2> HIDE DEF X
  <2>3. /\ Len(First(i)) = i /\ Len(First(i - 1)) = i - 1
    OBVIOUS
  <2>4. \A j \in 1..i : First(i)[j] = (First(i - 1) \o <<x[i]>>)[j]
    BY <2>2, <2>3
  <2>5. (First(i - 1) \o <<x[i]>>) \in Seq(X) /\ Len(First(i - 1) \o <<x[i]>>) = i
    BY <2>2, <2>3
  <2> QED
    BY <2>2, <2>3, <2>4, <2>5
<1>2. n >= 1 => First(1) = seqs[1]
  OBVIOUS
<1>3. Is([i \in 1..n |-> First(i)])
  <2> DEFINE f == [i \in 1..n |-> First(i)]
  <2>1. \A i \in 1..n : First(i) = IF i = 1 THEN seqs[i] ELSE f[i - 1] \o seqs[i]
    <3>1. \A i \in 1..n : i # 1 => f[i - 1] = First(i - 1) /\ seqs[i] = <<x[i]>>
      OBVIOUS
    <3>2. \A i \in 1..n : i = 1 => First(i) = seqs[i]
      BY <1>2
    <3> HIDE DEF f, First, seqs
    <3> QED
      BY <1>1, <3>1, <3>2
  <2> QED
    BY <2>1
<1>4. Is(flatten)
  BY <1>3
<1>5. FlattenSeq(seqs) = IF n = 0 THEN seqs ELSE flatten[n]
  BY DEF FlattenSeq
<1>6. \A i \in 1..n : flatten[i] = IF i = 1 THEN seqs[i] ELSE flatten[i - 1] \o seqs[i]
  BY <1>4
<1> HIDE DEF flatten
<1>7. S = {}
  <2>1. SUFFICES ASSUME S # {} PROVE FALSE
    OBVIOUS
  <2>2. PICK i \in S : \A j \in S : i <= j
    <3>1. S \subseteq Nat
      OBVIOUS
    <3> HIDE DEF S
    <3> QED
      BY <2>1, <3>1, LeastElement
  <2>3. CASE i = 1
    BY <1>2, <1>6, <2>2, <2>3
  <2>4. CASE i # 1
    <3>1. i - 1 \in 1..n /\ i - 1 \notin S
      BY <2>2, <2>4
    <3>2. flatten[i - 1] = First(i - 1) /\ seqs[i] = <<x[i]>>
      BY <3>1
    <3>3. flatten[i] = flatten[i - 1] \o seqs[i]
      BY <1>6, <2>4
    <3> QED
      BY <1>1, <2>4, <3>2, <3>3
  <2> QED
    BY <2>3, <2>4
<1>8. n # 0 => flatten[n] = First(n)
  <2>1. n # 0 => n \in 1..n
    OBVIOUS
  <2>2. \A i \in 1..n : flatten[i] = First(i)
    BY <1>7
  <2> HIDE DEF First
  <2> QED
    BY <2>1, <2>2
<1>9. n = 0 => seqs = First(n)
  OBVIOUS
<1> HIDE DEF seqs, First
<1>10. FlattenSeq(seqs) = First(n)
  BY <1>5, <1>8, <1>9
<1> QED
  BY <1>10 DEF seqs, First
-----------------------------------------------------------------------------
(* One message: what is made of it is what Promised says. *)

Elements == [type : STRING, val : Int, form : STRING]

\* A sequence is a function of its positions.
LEMMA SequenceIs ==
  ASSUME NEW S, NEW s \in Seq(S)
  PROVE  /\ DOMAIN s = 1..Len(s) /\ Len(s) \in Nat
         /\ s = [i \in DOMAIN s |-> s[i]]
         /\ s # <<>> => 1 \in DOMAIN s /\ Len(s) # 0
<1>1. DOMAIN s = 1..Len(s) /\ Len(s) \in Nat
  OBVIOUS
<1>2. s = [i \in DOMAIN s |-> s[i]]
  BY <1>1
<1>3. Len(s) = 0 => s = <<>>
  OBVIOUS
<1> QED
  BY <1>1, <1>2, <1>3

\* A list of one is a function, too.
LEMMA SingleIs == \A x : [i \in 1..1 |-> x] = <<x>>
  OBVIOUS

LEMMA NonePosition == \A i : i \notin DOMAIN <<>>
  OBVIOUS

LEMMA NoneIs == \A S : <<>> \in Seq(S)
  OBVIOUS

\* What a document has under a name.
LEMMA ElementsFound ==
  ASSUME NEW doc \in Documents, NEW path, path # ""
  PROVE  LET elems == ElementsAt(doc, path)
             node == doc.fields[path]
         IN  /\ elems \in Seq(Elements)
             /\ \A i \in DOMAIN elems : elems[i].form = "iso" => elems[i].type = "string"
             /\ StandsAlone(doc, path) => Len(elems) = 1
             /\ elems # <<>> =>
                  node.elems = elems /\ (node.array <=> ~StandsAlone(doc, path))
<1> DEFINE node == doc.fields[path]
<1>1. CASE doc.json = "object" /\ path \in DOMAIN doc.fields
  <2>1. ElementsAt(doc, path) = node.elems /\ (StandsAlone(doc, path) <=> ~node.array)
    BY <1>1 DEF ElementsAt, StandsAlone
  <2>2. /\ node.elems \in Seq(Elements) /\ node.array \in BOOLEAN
        /\ \A i \in DOMAIN node.elems :
             node.elems[i].form = "iso" => node.elems[i].type = "string"
        /\ node.array \/ Len(node.elems) = 1
    BY <1>1, DocumentsAssumption DEF Elements
  <2> HIDE DEF node
  <2> QED
    BY <2>1, <2>2 DEF node
<1>2. CASE ~(doc.json = "object" /\ path \in DOMAIN doc.fields)
  <2>1. ElementsAt(doc, path) = <<>> /\ ~StandsAlone(doc, path)
    BY <1>2 DEF ElementsAt, StandsAlone
  <2>2. <<>> \in Seq(Elements)
    BY NoneIs
  <2> QED
    BY <2>1, <2>2, NonePosition
<1> QED
  BY <1>1, <1>2

\* Nothing is read where nothing is.
LEMMA ValueExtracted ==
  ASSUME NEW doc \in Documents, NEW path, path # ""
  PROVE  Extract(doc, path, extractValue) =
           IF ElementsAt(doc, path) = <<>> THEN Nothing
           ELSE extractValue(doc.fields[path])
<1>1. CASE doc.json = "object" /\ path \in DOMAIN doc.fields
  <2>1. /\ Found(doc, path) = <<doc.fields[path]>>
        /\ ElementsAt(doc, path) = doc.fields[path].elems
    BY <1>1 DEF Found, ElementsAt
  <2>2. Extract(doc, path, extractValue) = extractValue(doc.fields[path])
    <3>1. \A x : <<x>> # <<>> /\ <<x>>[1] = x
      OBVIOUS
    <3> QED
      BY <1>1, <2>1, <3>1 DEF Extract
  <2>3. doc.fields[path].elems = <<>> => extractValue(doc.fields[path]) = Nothing
    BY DEF extractValue
  <2> QED
    BY <2>1, <2>2, <2>3
<1>2. CASE ~(doc.json = "object" /\ path \in DOMAIN doc.fields)
  BY <1>2 DEF Extract, Found, ElementsAt
<1> QED
  BY <1>1, <1>2

LEMMA TimestampExtracted ==
  ASSUME NEW doc \in Documents, NEW path, path # ""
  PROVE  Extract(doc, path, extractTimestamp) =
           IF ElementsAt(doc, path) = <<>> THEN Nothing
           ELSE extractTimestamp(doc.fields[path])
<1>1. CASE doc.json = "object" /\ path \in DOMAIN doc.fields
  <2>1. /\ Found(doc, path) = <<doc.fields[path]>>
        /\ ElementsAt(doc, path) = doc.fields[path].elems
    BY <1>1 DEF Found, ElementsAt
  <2>2. Extract(doc, path, extractTimestamp) = extractTimestamp(doc.fields[path])
    <3>1. \A x : <<x>> # <<>> /\ <<x>>[1] = x
      OBVIOUS
    <3> QED
      BY <1>1, <2>1, <3>1 DEF Extract
  <2>3. doc.fields[path].elems = <<>> => extractTimestamp(doc.fields[path]) = Nothing
    BY DEF extractTimestamp
  <2> QED
    BY <2>1, <2>2, <2>3
<1>2. CASE ~(doc.json = "object" /\ path \in DOMAIN doc.fields)
  BY <1>2 DEF Extract, Found, ElementsAt
<1> QED
  BY <1>1, <1>2

OnlyOf(elems, type) == \A i \in DOMAIN elems : elems[i].type = type
TypeOf(elems) == IF OnlyOf(elems, "int") THEN "Int64"
                 ELSE IF OnlyOf(elems, "string") THEN "String" ELSE "Float64"
ItemsOf(elems) == [i \in DOMAIN elems |->
                    IF OnlyOf(elems, "int") THEN AsInt64(elems[i]) ELSE elems[i]]

\* The values of a message are its elements, if these are of one kind.
LEMMA ValuesAre ==
  ASSUME NEW c, NEW doc \in Documents, c.valueFieldName # ""
  PROVE  LET elems == ElementsAt(doc, c.valueFieldName)
         IN  Values(c, doc) =
               IF elems # <<>> /\ SameKind(elems)
               THEN [ok |-> TRUE, type |-> TypeOf(elems), items |-> ItemsOf(elems)]
               ELSE Nothing
<1> DEFINE elems == ElementsAt(doc, c.valueFieldName)
           node == doc.fields[c.valueFieldName]
           type == detectArrayValueType(elems)
<1>1. Values(c, doc) = IF elems = <<>> THEN Nothing ELSE extractValue(node)
  BY ValueExtracted DEF Values
<1>2. elems \in Seq(Elements) /\ (elems # <<>> => node.elems = elems)
  BY ElementsFound
<1> HIDE DEF elems, node
<1>3. SUFFICES ASSUME elems # <<>>
               PROVE  extractValue(node) =
                        IF SameKind(elems)
                        THEN [ok |-> TRUE, type |-> TypeOf(elems), items |-> ItemsOf(elems)]
                        ELSE Nothing
  BY <1>1 DEF elems
<1>4. 1 \in DOMAIN elems
  BY <1>2, <1>3, SequenceIs
<1>5. /\ type # "Unsupported" <=> SameKind(elems)
      /\ type # "Unsupported" => type = TypeOf(elems)
      /\ type = "Int64" <=> OnlyOf(elems, "int")
  <2>1. /\ AllOf(elems, {"int"}) <=> OnlyOf(elems, "int")
        /\ AllOf(elems, {"string"}) <=> OnlyOf(elems, "string")
        /\ SameKind(elems) <=> AllOf(elems, {"int", "double"}) \/ OnlyOf(elems, "string")
        /\ AllOf(elems, {"int"}) => AllOf(elems, {"int", "double"})
        /\ AllOf(elems, {"int", "double"}) => ~AllOf(elems, {"string"})
    BY <1>4 DEF AllOf, OnlyOf, SameKind
  <2> QED
    BY <2>1 DEF detectArrayValueType, TypeOf
<1>6. elems = [i \in DOMAIN elems |-> elems[i]]
  BY <1>2, SequenceIs
<1>7. (IF type = "Int64" THEN [i \in DOMAIN elems |-> AsInt64(elems[i])] ELSE elems)
        = ItemsOf(elems)
  BY <1>5, <1>6 DEF ItemsOf
<1>8. extractValue(node) =
        IF type = "Unsupported" THEN Nothing
        ELSE [ok |-> TRUE, type |-> type,
              items |-> IF type = "Int64"
                        THEN [i \in DOMAIN elems |-> AsInt64(elems[i])]
                        ELSE elems]
  BY <1>2, <1>3 DEF extractValue
<1> HIDE DEF type
<1> QED
  BY <1>5, <1>7, <1>8

TicksOf(elems) == [i \in DOMAIN elems |-> toUnixTicks(elems[i])]

\* The time stamps of a message are its elements, if these can be read.
LEMMA TicksAre ==
  ASSUME NEW c, NEW doc \in Documents, c.tsMode = "ExtractFromMessage",
         c.tsFieldName # ""
  PROVE  LET elems == ElementsAt(doc, c.tsFieldName)
         IN  Ticks(c, doc) =
               IF elems # <<>> /\ Readable(doc, c.tsFieldName)
               THEN [ok |-> TRUE, type |-> "UInt64", items |-> TicksOf(elems)]
               ELSE Nothing
<1> DEFINE elems == ElementsAt(doc, c.tsFieldName)
           node == doc.fields[c.tsFieldName]
           alone == StandsAlone(doc, c.tsFieldName)
           numeric == elems[1].type = "int"
           fits == IF numeric
                   THEN /\ AllOf(elems, {"int"})
                        /\ node.array => \A i \in DOMAIN elems : elems[i].val >= 0
                   ELSE AllOf(elems, {"string"})
           items == [i \in DOMAIN elems |->
                      IF numeric THEN numericToMicroseconds(elems[i])
                      ELSE toUnixTicks(elems[i])]
<1>1. Ticks(c, doc) = IF elems = <<>> THEN Nothing ELSE extractTimestamp(node)
  BY TimestampExtracted DEF Ticks
<1>2. /\ elems \in Seq(Elements)
      /\ elems # <<>> => node.elems = elems /\ (node.array <=> ~alone)
      /\ \A i \in DOMAIN elems : elems[i].form = "iso" => elems[i].type = "string"
  BY ElementsFound
<1>3. Readable(doc, c.tsFieldName) <=>
        \/ OnlyOf(elems, "string")
        \/ OnlyOf(elems, "int") /\ (alone \/ \A i \in DOMAIN elems : elems[i].val >= 0)
  BY DEF Readable, OnlyOf
<1> HIDE DEF elems, node, alone
<1>4. SUFFICES ASSUME elems # <<>>
               PROVE  extractTimestamp(node) =
                        IF Readable(doc, c.tsFieldName)
                        THEN [ok |-> TRUE, type |-> "UInt64", items |-> TicksOf(elems)]
                        ELSE Nothing
  BY <1>1 DEF elems
<1>5. 1 \in DOMAIN elems
  BY <1>2, <1>4, SequenceIs
<1>6. extractTimestamp(node) =
        IF ~fits THEN Nothing ELSE [ok |-> TRUE, type |-> "UInt64", items |-> items]
  BY <1>2, <1>4 DEF extractTimestamp
<1>7. fits <=> Readable(doc, c.tsFieldName)
  <2>1. node.array <=> ~alone
    BY <1>2, <1>4
  <2>2. /\ AllOf(elems, {"int"}) <=> OnlyOf(elems, "int")
        /\ AllOf(elems, {"string"}) <=> OnlyOf(elems, "string")
        /\ OnlyOf(elems, "int") => numeric
        /\ OnlyOf(elems, "string") => ~numeric
    BY <1>5 DEF AllOf, OnlyOf
  <2> QED
    BY <1>3, <2>1, <2>2
<1>8. fits => items = TicksOf(elems)
  <2>1. CASE fits /\ numeric
    <3>1. \A i \in DOMAIN elems : elems[i].form # "iso"
      BY <1>2, <2>1 DEF AllOf
    <3>2. \A i \in DOMAIN elems : toUnixTicks(elems[i]) = numericToMicroseconds(elems[i])
      BY <3>1 DEF toUnixTicks
    <3> QED
      BY <2>1, <3>2 DEF TicksOf
  <2>2. CASE ~numeric
    BY <2>2 DEF TicksOf
  <2> QED
    BY <2>1, <2>2
<1> HIDE DEF fits, items
<1> QED
  BY <1>6, <1>7, <1>8
\* One message is published as promised: the packets made of it are its samples.
LEMMA PromiseKept ==
  ASSUME NEW c, NEW m, m.doc \in Documents, c.tsMode \in DomainSignalMode, Valid(c)
  PROVE  LET packets == buildPackets(c, c.tsMode # "None", m)
         IN  Aligned(packets) /\ SamplesOf(packets) = Promised(c, m)
<1> DEFINE packets == buildPackets(c, c.tsMode # "None", m)
           values == ElementsAt(m.doc, c.valueFieldName)
           times == ElementsAt(m.doc, c.tsFieldName)
           extracts == c.tsMode = "ExtractFromMessage"
           external == c.tsMode = "ExternalTimestamp"
           stamped == c.tsMode # "None"
           good == values # <<>> /\ SameKind(values)
           promised == /\ good
                       /\ extracts => Len(times) = Len(values)
                                      /\ Readable(m.doc, c.tsFieldName)
                       /\ external => Len(values) = 1
           items == ItemsOf(values)
           ts == IF external THEN <<m.externalTs>> ELSE TicksOf(times)
           Time(i) == IF c.tsMode = "None" THEN {}
                      ELSE IF external THEN {m.externalTs} ELSE {toUnixTicks(times[i])}
           n == Len(values)
           samples == [i \in 1..n |-> <<items[i], Time(i)>>]
<1>1. /\ c.valueFieldName # "" /\ (extracts => c.tsFieldName # "")
      /\ values \in Seq(Elements) /\ (extracts => times \in Seq(Elements))
  BY ElementsFound DEF Valid
<1>2. /\ DOMAIN values = 1..n /\ n \in Nat
      /\ extracts => DOMAIN times = 1..Len(times) /\ Len(times) \in Nat
  BY <1>1, SequenceIs
<1>3. Values(c, m.doc) =
        IF good THEN [ok |-> TRUE, type |-> TypeOf(values), items |-> items]
        ELSE Nothing
  BY <1>1, ValuesAre
<1>4. extracts => Ticks(c, m.doc) =
        IF times # <<>> /\ Readable(m.doc, c.tsFieldName)
        THEN [ok |-> TRUE, type |-> "UInt64", items |-> TicksOf(times)] ELSE Nothing
  BY <1>1, TicksAre
<1>5. Len(items) = n /\ DOMAIN items = 1..n
  BY <1>2 DEF ItemsOf
<1>6. extracts => Len(TicksOf(times)) = Len(times)
  BY <1>2 DEF TicksOf
<1>7. Promised(c, m) = IF promised THEN samples ELSE <<>>
  <2>1. samples = [i \in DOMAIN values |->
          <<IF \A k \in DOMAIN values : values[k].type = "int" THEN AsInt64(values[i])
            ELSE values[i], Time(i)>>]
    BY <1>2 DEF ItemsOf, OnlyOf
  <2> QED
    BY <2>1 DEF Promised
<1> HIDE DEF values, times, items
<1>8. Success(c, m) <=> promised
  <2>1. CASE ~good
    <3>1. Values(c, m.doc).ok = FALSE
      BY <1>3, <2>1 DEF Nothing
    <3> QED
      BY <2>1, <3>1 DEF Success, validateExtractionResult
  <2>2. CASE good
    <3>1. Values(c, m.doc).ok = TRUE /\ Values(c, m.doc).items = items
      BY <1>3, <2>2
    <3>2. CASE extracts
      <4>1. n # 0
        BY <1>1, <2>2, SequenceIs
      <4>2. CASE times # <<>> /\ Readable(m.doc, c.tsFieldName)
        <5>1. Ticks(c, m.doc).ok = TRUE /\ Ticks(c, m.doc).items = TicksOf(times)
          BY <1>4, <3>2, <4>2
        <5> QED
          BY <1>1, <1>5, <1>6, <2>2, <3>1, <3>2, <4>2, <5>1
             DEF Success, validateExtractionResult
      <4>3. CASE ~(times # <<>> /\ Readable(m.doc, c.tsFieldName))
        <5>1. Ticks(c, m.doc).ok = FALSE
          BY <1>4, <3>2, <4>3 DEF Nothing
        <5>2. ~promised
          BY <3>2, <4>1, <4>3
        <5> QED
          BY <1>1, <3>2, <5>1, <5>2 DEF Success, validateExtractionResult
      <4> QED
        BY <4>2, <4>3
    <3>3. CASE ~extracts
      BY <1>5, <2>2, <3>1, <3>3 DEF Success, validateExtractionResult
    <3> QED
      BY <3>2, <3>3
  <2> QED
    BY <2>1, <2>2
<1>9. CASE ~promised
  <2>1. packets = <<>>
    BY <1>8, <1>9 DEF buildPackets
  <2>3. Aligned(packets)
    BY <2>1, NonePosition DEF Aligned
  <2>4. SamplesOf(packets) = FlattenSeq(<<>>)
    BY <2>1 DEF SamplesOf
  <2> QED
    BY <1>7, <1>9, <2>3, <2>4, FlattenNone
<1>10. CASE promised
  <2> DEFINE type == TypeOf(values)
             Packet(vs, us) == [type |-> type, domain |-> stamped, values |-> vs,
                                ticks |-> IF stamped THEN us ELSE <<>>]
  <2>1. packets = IF type = "String"
                  THEN [i \in 1..n |-> Packet(<<items[i]>>, <<ts[i]>>)]
                  ELSE <<Packet(items, ts)>>
    <3>1. /\ Values(c, m.doc).type = type /\ Values(c, m.doc).items = items
          /\ extracts => Ticks(c, m.doc).items = ts
      <4>1. extracts => times # <<>>
        <5>1. CASE extracts /\ times = <<>>
          <6>1. Len(times) = 0
            BY <5>1
          <6> QED
            BY <1>1, <1>10, <5>1, <6>1, SequenceIs
        <5> QED
          BY <5>1
      <4> QED
        BY <1>3, <1>4, <1>10, <4>1
    <3>2. packets = buildDataPackets(type, stamped, items,
             IF external THEN <<m.externalTs>> ELSE Ticks(c, m.doc).items)
      BY <1>8, <1>10, <3>1 DEF buildPackets
    <3> HIDE DEF type
    <3> QED
      BY <1>5, <3>1, <3>2 DEF buildDataPackets, DomainSignalMode
  <2>2. /\ stamped => Len(ts) = n
        /\ \A i \in 1..n : Time(i) = IF stamped THEN {ts[i]} ELSE {}
    <3>1. CASE extracts
      BY <1>2, <1>6, <1>10, <3>1 DEF TicksOf
    <3>2. CASE external
      <4>1. ts = <<m.externalTs>> /\ n = 1 /\ \A i : Time(i) = {m.externalTs}
        BY <1>10, <3>2
      <4>2. Len(<<m.externalTs>>) = 1 /\ <<m.externalTs>>[1] = m.externalTs
        OBVIOUS
      <4> HIDE DEF ts, Time
      <4>3. \A i \in 1..n : i = 1
        BY <4>1
      <4> QED
        BY <3>2, <4>1, <4>2, <4>3
    <3>3. CASE c.tsMode = "None"
      BY <3>3
    <3> QED
      BY <3>1, <3>2, <3>3 DEF DomainSignalMode
  <2> HIDE DEF packets, ts, type, stamped, promised, Time
  <2>3. stamped \in BOOLEAN
    BY DEF stamped
  <2>4. CASE type = "String"
    <3>1. packets = [i \in 1..n |-> Packet(<<items[i]>>, <<ts[i]>>)]
      BY <2>1, <2>4
    <3>2. Aligned(packets)
      BY <3>1 DEF Aligned
    <3>3. SamplesOf(packets) = FlattenSeq([k \in 1..n |-> <<samples[k]>>])
      <4> DEFINE Of(k) == [i \in DOMAIN packets[k].values |->
                   <<packets[k].values[i],
                     IF packets[k].domain THEN {packets[k].ticks[i]} ELSE {}>>]
      <4>1. ASSUME NEW k \in 1..n PROVE Of(k) = <<samples[k]>>
        <5>1. packets[k] = Packet(<<items[k]>>, <<ts[k]>>)
          BY <3>1
        <5>2. DOMAIN packets[k].values = 1..1 /\ packets[k].values[1] = items[k]
          BY <5>1
        <5>3. (IF packets[k].domain THEN {packets[k].ticks[1]} ELSE {}) = Time(k)
          BY <2>2, <2>3, <5>1
        <5>4. Of(k) = [i \in 1..1 |-> samples[k]]
          BY <5>2, <5>3
        <5> HIDE DEF samples, Of
        <5> QED
          BY <5>4, SingleIs
      <4>2. DOMAIN packets = 1..n
        BY <3>1
      <4>3. [k \in DOMAIN packets |-> Of(k)] = [k \in 1..n |-> <<samples[k]>>]
        BY <4>1, <4>2
      <4> QED
        BY <4>3 DEF SamplesOf
    <3>4. SamplesOf(packets) = [k \in 1..n |-> samples[k]]
      BY <1>2, <3>3, FlattenSingles
    <3> QED
      BY <1>7, <1>10, <3>2, <3>4 DEF packets, promised
  <2>5. CASE type # "String"
    <3>1. packets = <<Packet(items, ts)>>
      BY <2>1, <2>5
    <3>2. /\ DOMAIN packets = {1} /\ packets[1] = Packet(items, ts)
      BY <3>1
    <3>3. Aligned(packets)
      BY <1>5, <2>2, <2>3, <3>2 DEF Aligned
    <3>4. SamplesOf(packets) = FlattenSeq(<<samples>>)
      <4> DEFINE Of(k) == [i \in DOMAIN packets[k].values |->
                   <<packets[k].values[i],
                     IF packets[k].domain THEN {packets[k].ticks[i]} ELSE {}>>]
      <4>1. Of(1) = samples
        BY <1>5, <2>2, <2>3, <3>2
      <4>2. [k \in DOMAIN packets |-> Of(k)] = [k \in 1..1 |-> samples]
        BY <3>2, <4>1
      <4>3. [k \in 1..1 |-> samples] = <<samples>>
        BY SingleIs
      <4> QED
        BY <4>2, <4>3 DEF SamplesOf
    <3>5. FlattenSeq(<<samples>>) = samples
      <4> DEFINE X == {samples[i] : i \in 1..n}
      <4>1. samples \in [1..n -> X]
        OBVIOUS
      <4> HIDE DEF samples, X
      <4>2. samples \in Seq(X)
        BY <1>2, <4>1
      <4> QED
        BY <4>2, FlattenOne
    <3> QED
      BY <1>7, <1>10, <3>3, <3>4, <3>5 DEF packets, promised
  <2> QED
    BY <2>4, <2>5
<1> QED
  BY <1>9, <1>10

-----------------------------------------------------------------------------
(* What is published. *)

\* What has been shown so far holds together.
LEMMA AllHolds == Spec => [](TInv /\ FInv /\ PInv)
<1>1. Init => FInv
  BY StatusStarts
<1>2. TInv /\ TInv' /\ FInv /\ [Next]_vars => FInv'
  BY StatusInductive
<1>3. Init => PInv
  BY PacketsStart
<1>4. TInv /\ TInv' /\ FInv /\ PInv /\ [Next]_vars => PInv'
  BY PacketsInductive
<1> QED
  BY <1>1, <1>2, <1>3, <1>4, DecoderTyped, PTL DEF Spec

\* Only ProcessMessage ends a message, and it holds the lock: the configuration is
\* then as valid as the flag says, and the signal has a domain if the mode has one.
LEMMA StepPublishes ==
  ASSUME TInv, FInv, PInv, Next, configValid, processing # NoMessage,
         processing' = NoMessage
  PROVE  Aligned(sent') /\ SamplesOf(sent') = Promised(config, processing)
<1>1. CASE ProcessMessage
  <2> DEFINE domain == outputSignal.domain
  <2>1. /\ stage = "idle" /\ processing \in Messages
        /\ sent' = buildPackets(config, domain, processing)
        /\ domain \in BOOLEAN /\ config \in Configurations
    BY <1>1 DEF ProcessMessage, LockFree, TInv, DecoderTypeOK
  <2>2. Valid(config) /\ (domain <=> config.tsMode # "None")
    BY <2>1 DEF FInv, PInv, Flags
  <2>3. processing.doc \in Documents
    BY <2>1 DEF Messages
  <2>4. config.tsMode \in DomainSignalMode
    BY <2>1, ReadTyped DEF Configurations, Properties
  <2>5. domain = (config.tsMode # "None")
    BY <2>1, <2>2
  <2> QED
    BY <2>1, <2>2, <2>3, <2>4, <2>5, PromiseKept
<1>2. CASE ~ProcessMessage
  <2>1. processing' # NoMessage
    <3>1. ASSUME NEW p \in Properties, PropertyChanged(p) PROVE processing' # NoMessage
      BY <3>1 DEF PropertyChanged
    <3>2. CASE ReadProperties
      BY <3>2 DEF ReadProperties
    <3>3. CASE ReconfigureSignal
      BY <3>3 DEF ReconfigureSignal
    <3>4. ASSUME NEW m \in Messages, ReceiveMessage(m) PROVE processing' # NoMessage
      BY <3>4 DEF ReceiveMessage
    <3>5. CASE ReadBeyondTicks
      BY <3>5 DEF ReadBeyondTicks
    <3> QED
      BY <1>2, <3>1, <3>2, <3>3, <3>4, <3>5 DEF Next
  <2> QED
    BY <2>1
<1> QED
  BY <1>1, <1>2

\* Under a valid configuration a message is published completely, each value with
\* its own time stamp, or not at all (extractDataSamples to sendDataSamples).
THEOREM PublishesAsPromised == Spec => PublishedAsPromised
<1>1. TInv /\ FInv /\ PInv /\ [Next]_vars
        => [configValid /\ processing # NoMessage /\ processing' = NoMessage =>
              Aligned(sent') /\ SamplesOf(sent') = Promised(config, processing)]_vars
  BY StepPublishes
<1> QED
  BY <1>1, AllHolds, PTL DEF Spec, PublishedAsPromised
=============================================================================
