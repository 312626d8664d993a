----------------------------- MODULE TopicFeed -----------------------------
(***************************************************************************)
(* What a subscriber function block promises to the blocks nested in it,   *)
(* whatever threads it uses: a message it accepted is handled exactly      *)
(* once, in the order of arrival, while the feed is open; handling it      *)
(* gives it to every nested block of that moment when its topic is the     *)
(* topic of that moment, and discards it otherwise.                        *)
(***************************************************************************)
EXTENDS Naturals, Sequences

CONSTANTS
  Msgs,      \* the messages, records with a field "topic"
  Decoders,  \* the blocks that can be nested
  Topics,    \* the topics a block can follow
  NoTopic    \* no topic is followed

VARIABLES
  open,      \* the feed still handles messages
  topic,     \* the topic that is followed
  nested,    \* the nested blocks
  pending,   \* accepted messages that are not handled yet, oldest first
  out        \* what was given out: which message, to which blocks

vars == <<open, topic, nested, pending, out>>

Init ==
  /\ open = TRUE
  /\ topic \in Topics \cup {NoTopic}
  /\ nested \in SUBSET Decoders
  /\ pending = <<>>
  /\ out = <<>>

\* A message arrives. The feed does not judge its topic yet.
Accept ==
  /\ \E m \in Msgs : pending' = Append(pending, m)
  /\ UNCHANGED <<open, topic, nested, out>>

\* The oldest pending message is given out or discarded.
Handle ==
  /\ open
  /\ pending # <<>>
  /\ pending' = Tail(pending)
  /\ out' = IF Head(pending).topic = topic
              THEN Append(out, [msg |-> Head(pending), to |-> nested])
              ELSE out
  /\ UNCHANGED <<open, topic, nested>>

\* The user reconfigures the block or nests, or removes, another one.
Reconfigure ==
  /\ topic' \in Topics \cup {NoTopic}
  /\ nested' \in SUBSET Decoders
  /\ UNCHANGED <<open, pending, out>>

\* The block stops. Messages that are still pending are never handled.
Close ==
  /\ open
  /\ open' = FALSE
  /\ UNCHANGED <<topic, nested, pending, out>>

Next == Accept \/ Handle \/ Reconfigure \/ Close

Spec == Init /\ [][Next]_vars /\ WF_vars(Handle)

=============================================================================
