------------------------------ MODULE MCCampaign -----------------------------
(* Instance for TLC: two arms, then the self-terminator.                      *)
EXTENDS Campaign

MCSchedule == <<"A", "B", "BASELINE">>

==============================================================================
