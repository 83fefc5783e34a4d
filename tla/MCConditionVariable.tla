------------------------- MODULE MCConditionVariable -------------------------
(* Instances of ConditionVariable for TLC.                                 *)
EXTENDS ConditionVariable, TLC

=============================================================================
