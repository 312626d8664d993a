--------------------------- MODULE MCSubscriberFb ---------------------------
(***************************************************************************)
(* Instances of SubscriberFb for TLC.                                      *)
(***************************************************************************)
EXTENDS SubscriberFb, TLC

CONSTANTS t1, t2, d1

MCTopics == {t1, t2}
MCOneTopic == {t1}
MCIntervals == {0, 200}
MCNoInterval == {0}
MCNoDecoders == {}
MCDecoders == {d1}
MCSymmetry == Permutations(MCTopics)

=============================================================================
