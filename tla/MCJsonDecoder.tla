--------------------------- MODULE MCJsonDecoder ---------------------------
(***************************************************************************)
(* Instances of JsonDecoder for TLC: documents with two fields, either of  *)
(* which can be taken for the value or for the time stamp.                 *)
(***************************************************************************)
EXTENDS JsonDecoder

E(type, val, form) == [type |-> type, val |-> val, form |-> form]
One(e) == [array |-> FALSE, elems |-> <<e>>]
Many(es) == [array |-> TRUE, elems |-> es]
Object(a, b) == [json |-> "object", fields |-> [a |-> a, b |-> b]]

Seconds == E("int", 1, "s")
Micros == E("int", 2, "us")
Text == E("string", 3, "iso")
Word == E("string", 1, "other")
Large == E("int", 5, "ns")
Negative == E("int", -1, "other")
Real == E("double", 1, "other")

MCDocuments ==
  { Object(One(Real), One(Seconds)),                        \* one sample
    Object(Many(<<Micros, Real>>), Many(<<Seconds, Micros>>)),   \* promoted
    Object(Many(<<Word, Text>>), Many(<<Text, Word>>)),     \* texts
    Object(Many(<<Word, Text>>), One(Text)),                \* sizes differ
    Object(Many(<<Large, Negative>>), One(Negative)),       \* int64 and signs
    Object(Many(<<Real, Word>>), Many(<<>>)),               \* mixed, empty
    Object(One(E("bool", 0, "other")), One(Large)),
    Object(One(Real), Many(<<Negative>>)),                  \* refused in an array
    [json |-> "object", fields |-> [a |-> One(Word)]],      \* a field missing
    [json |-> "error", fields |-> <<>>],
    [json |-> "notObject", fields |-> <<>>] }

=============================================================================
