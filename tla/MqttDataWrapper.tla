-------------------------- MODULE MqttDataWrapper --------------------------
(***************************************************************************)
(* The pure part of MqttDataWrapper: what becomes of one JSON message      *)
(* under one configuration of the decoder, up to the packets to send.      *)
(*                                                                         *)
(* A document is a record: "json" says whether the text parsed and was an  *)
(* object, "fields" has the nodes its paths lead to (JsonPath says which   *)
(* node a path leads to). A node is an array or a single element, both     *)
(* with their elements as a sequence. An element has a type, a number or   *)
(* an identity, and the form that decides how it reads as a time stamp:    *)
(* "s", "ms", "us" and "ns" are the numbers of 10, 13, 16 and 19 digits,   *)
(* "iso" a text boost parses, "other" the rest.                            *)
(***************************************************************************)
EXTENDS Integers, SequencesExt

CONSTANT HalfRange   \* 2^63, scaled down: the first number an int64 cannot hold

ASSUME WrapperAssumption == HalfRange \in Nat \ {0}

DomainSignalMode == {"None", "ExtractFromMessage", "ExternalTimestamp"}

\* What a resolved path leads to in a document, <<>> for nothing.
Found(doc, path) ==
  IF path \in DOMAIN doc.fields THEN <<doc.fields[path]>> ELSE <<>>

-----------------------------------------------------------------------------
\* A number above the range of int64 comes out negative: the cast wraps.
AsInt64(e) ==
  IF e.type = "int" /\ e.val >= HalfRange
  THEN [e EXCEPT !.val = @ - 2 * HalfRange] ELSE e

AllOf(elems, types) == \A i \in DOMAIN elems : elems[i].type \in types

\* The type of an array is that of all its elements; integers among doubles
\* are promoted.
detectArrayValueType(elems) ==
  IF AllOf(elems, {"int"}) THEN "Int64"
  ELSE IF AllOf(elems, {"int", "double"}) THEN "Float64"
  ELSE IF AllOf(elems, {"string"}) THEN "String" ELSE "Unsupported"

Nothing == [ok |-> FALSE, type |-> "Unsupported", items |-> <<>>]

\* A single element is typed like an array of one.
extractValue(node) ==
  LET type == detectArrayValueType(node.elems) IN
  IF node.elems = <<>> \/ type = "Unsupported" THEN Nothing
  ELSE [ok |-> TRUE, type |-> type,
        items |-> IF type = "Int64"
                  THEN [i \in DOMAIN node.elems |-> AsInt64(node.elems[i])]
                  ELSE node.elems]

\* Microseconds of a number, told by its number of digits; 0 when in doubt. A
\* negative number read as unsigned has 20 digits.
numericToMicroseconds(e) ==
  IF e.form \in {"s", "ms", "us", "ns"} /\ e.val >= 0 THEN e.val ELSE 0

toUnixTicks(e) ==
  IF e.form = "iso" THEN e.val ELSE numericToMicroseconds(e)

\* The branch is chosen by the first element. In an array of numbers a negative
\* one is an error, alone it is not.
extractTimestamp(node) ==
  LET elems == node.elems
      numeric == elems # <<>> /\ elems[1].type = "int"
      fits == IF numeric
              THEN /\ AllOf(elems, {"int"})
                   /\ node.array => \A i \in DOMAIN elems : elems[i].val >= 0
              ELSE AllOf(elems, {"string"}) IN
  IF elems = <<>> \/ ~fits THEN Nothing
  ELSE [ok |-> TRUE, type |-> "UInt64",
        items |-> [i \in DOMAIN elems |->
                    IF numeric THEN numericToMicroseconds(elems[i])
                    ELSE toUnixTicks(elems[i])]]

-----------------------------------------------------------------------------
\* parseJsonFields: what is found under the two names. An empty name of the
\* time stamp means that it is not looked for.
Extract(doc, path, Read(_)) ==
  IF doc.json # "object" \/ path = "" \/ Found(doc, path) = <<>> THEN Nothing
  ELSE Read(Found(doc, path)[1])

Values(config, doc) == Extract(doc, config.valueFieldName, extractValue)

Ticks(config, doc) ==
  IF config.tsMode # "ExtractFromMessage" THEN Nothing
  ELSE Extract(doc, config.tsFieldName, extractTimestamp)

\* The bug of asking for the time stamp only: a message without a value is sent.
ValidateWithoutValue(config, value, ts) ==
  /\ config.tsMode = "ExtractFromMessage" =>
       /\ config.tsFieldName # "" => ts.ok
       /\ ts.ok => Len(ts.items) = Len(value.items)

\* validateExtractionResult, TRUE when nothing speaks against sending.
validateExtractionResult(config, value, ts) ==
  /\ value.ok
  /\ config.tsMode = "ExtractFromMessage" =>
       /\ config.tsFieldName # "" => ts.ok
       /\ ts.ok => Len(ts.items) = Len(value.items)
  /\ config.tsMode = "ExternalTimestamp" => Len(value.items) = 1

Success(config, msg) ==
  validateExtractionResult(config, Values(config, msg.doc), Ticks(config, msg.doc))

\* The bug of sending every string with the first time stamp.
BuildWithFirstTick(type, domain, values, ticks) ==
  [i \in DOMAIN values |->
    [type |-> type, domain |-> domain, values |-> <<values[i]>>,
     ticks |-> IF domain THEN <<ticks[1]>> ELSE <<>>]]

\* Strings go out one packet each, with the time stamp of the same index;
\* numbers in one packet with all the time stamps.
buildDataPackets(type, domain, values, ticks) ==
  IF type = "String"
  THEN [i \in DOMAIN values |->
         [type |-> type, domain |-> domain, values |-> <<values[i]>>,
          ticks |-> IF domain THEN <<ticks[i]>> ELSE <<>>]]
  ELSE << [type |-> type, domain |-> domain, values |-> values,
           ticks |-> IF domain THEN ticks ELSE <<>>] >>

\* buildPackets; "domain" tells whether the output signal has a domain signal.
buildPackets(config, domain, msg) ==
  LET value == Values(config, msg.doc)
      ts == IF config.tsMode = "ExternalTimestamp" THEN <<msg.externalTs>>
            ELSE Ticks(config, msg.doc).items IN
  IF ~Success(config, msg) THEN <<>>
  ELSE buildDataPackets(value.type, domain /\ config.tsMode # "None", value.items, ts)

\* timestamp[i] beyond the end of the vector: only an empty one can be too
\* short here, and reading through it ends the process.
ReadsBeyondTicks(config, msg) ==
  /\ Success(config, msg)
  /\ config.tsMode = "ExtractFromMessage"
  /\ Values(config, msg.doc).type = "String"
  /\ Ticks(config, msg.doc).items = <<>>
=============================================================================
