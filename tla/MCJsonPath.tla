----------------------------- MODULE MCJsonPath -----------------------------
(***************************************************************************)
(* Instances of JsonPath for TLC: all paths up to a length, and addresses  *)
(* of up to two segments with awkward names.                               *)
(***************************************************************************)
EXTENDS JsonPath

CONSTANT MaxLength   \* bound: characters of a path

MCAlphabet == {"a", ".", "[", "]", "1", "\\"}
MCPaths == BoundedSeq(MCAlphabet, MaxLength)

MCNames == BoundedSeq({"a", ".", "[", "]", "\\", "0"}, 2)
MCIndexes == {<<>>, << <<"0">> >>, << <<"1", "0">>, <<"1">> >>}
MCWritten ==
  LET segment == [name : MCNames, indexes : MCIndexes]
  IN {<<s>> : s \in segment \ [name : {<<>>}, indexes : {<<>>}]}
       \cup {<<[name |-> n, indexes |-> << <<"1">> >>], s>> :
               n \in {<<>>, <<"\\">>, <<"a", ".">>, <<"[", "0">>},
               s \in segment \ [name : {<<>>}, indexes : {<<>>}]}
=============================================================================
