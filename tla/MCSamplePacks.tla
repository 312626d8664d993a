--------------------------- MODULE MCSamplePacks ---------------------------
(***************************************************************************)
(* An instance of SamplePacks for TLC: two signals that can take each      *)
(* other's place.                                                          *)
(***************************************************************************)
EXTENDS SamplePacks, TLC

CONSTANTS s1, s2
MCSignals == {s1, s2}
MCSymmetry == Permutations(MCSignals)

\* In packs for all signals, one change more: a port is given from one signal to
\* another while a pack is begun, and a descriptor changes and changes back.
MCMaxOps == [k \in Kinds |-> IF k = "groupArray" THEN 6 ELSE 5]
=============================================================================
