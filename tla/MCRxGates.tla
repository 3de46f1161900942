------------------------------ MODULE MCRxGates ------------------------------
(* Instance for TLC.                                                          *)
EXTENDS RxGates

==============================================================================
