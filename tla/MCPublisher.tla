---------------------------- MODULE MCPublisher ----------------------------
(***************************************************************************)
(* Instances of Publisher for TLC.                                         *)
(***************************************************************************)
EXTENDS Publisher

CONSTANTS s1, s2, n1, n2

MCSignals == {s1, s2}
MCNames == {n1, n2}
MCSymmetry == Permutations(MCSignals) \cup Permutations(MCNames)

Kind(value, domain) == [value |-> value, domain |-> domain]

MCKinds ==
  {Kind("number", d) : d \in {"fast", "slow", "plain"}}
    \cup {Kind("array", "fast")}

Setting(single, byName, preview, topic) ==
  [single |-> single, raw |-> FALSE, byName |-> byName, preview |-> preview,
   topic |-> topic]

MCSettings ==
  { Setting(FALSE, FALSE, TRUE, "valid"),
    [Setting(FALSE, FALSE, FALSE, "valid") EXCEPT !.raw = TRUE],
    Setting(TRUE, FALSE, TRUE, "invalid"), Setting(TRUE, TRUE, FALSE, "empty") }

=============================================================================
