---------------------------- MODULE MCTransfer ----------------------------
(***************************************************************************)
(* Instances of Transfer for TLC: the stack is /s on the source and /t/a   *)
(* on the target, deeper than the first.                                  *)
(***************************************************************************)
EXTENDS Transfer

SourceStack == <<"s">>
TargetStack == <<"t", "a">>
=============================================================================
