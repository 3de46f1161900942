------------------------------- MODULE MCStart -------------------------------
(* Instance for TLC.                                                        *)
EXTENDS Start
==============================================================================
