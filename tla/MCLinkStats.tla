----------------------------- MODULE MCLinkStats -----------------------------
(* Instance for TLC.                                                          *)
EXTENDS LinkStats

MCMaxNow == [packets |-> 12, failures |-> 6]
==============================================================================
