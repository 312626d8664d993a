-------------------------- MODULE MCTopicRegistry --------------------------
(***************************************************************************)
(* An instance of TopicRegistry for TLC: two blocks that can meet on a     *)
(* topic, and the three kinds of preview.                                  *)
(***************************************************************************)
EXTENDS TopicRegistry, TLC

CONSTANTS b1, b2, t1, t2
MCBlocks == {b1, b2}
MCTopics == {t1, t2}
MCSymmetry == Permutations(MCBlocks) \cup Permutations(MCTopics)

MCPreviews ==
  { [enabled |-> FALSE, string |-> FALSE, stamped |-> FALSE],
    [enabled |-> TRUE, string |-> TRUE, stamped |-> FALSE],
    [enabled |-> TRUE, string |-> FALSE, stamped |-> TRUE] }
=============================================================================
