---------------------------- MODULE MCStatusBoard ----------------------------
(***************************************************************************)
(* An instance of StatusBoard for TLC: the user's thread changes every     *)
(* entry, the processing thread the last two (data acquisition, domain).   *)
(***************************************************************************)
EXTENDS StatusBoard, TLC

CONSTANTS user, proc, a, b

MCThreads == {user, proc}
MCTexts == {a, b}
MCOneText == {a}
MCWrites == (user :> Entries) @@ (proc :> {N - 1, N})

=============================================================================
