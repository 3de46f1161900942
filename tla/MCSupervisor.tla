----------------------------- MODULE MCSupervisor -----------------------------
(* Instance for TLC: one unit of time is one get_stderr pass, and the other   *)
(* times keep the order they have in the code.                                *)
EXTENDS Supervisor

==============================================================================
