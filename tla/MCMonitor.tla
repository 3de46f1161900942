------------------------------ MODULE MCMonitor ------------------------------
(* Instance for TLC: one poll is 30 s; the times keep the order they have.    *)
EXTENDS Reports

\* A minute with the flag clear, one with it set, one of collapsed reception.
MCRowKinds == {[rx |-> "good", flag |-> "clear"],
               [rx |-> "good", flag |-> "set"],
               [rx |-> "null", flag |-> "set"]}
==============================================================================
