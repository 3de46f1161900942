------------------------------ MODULE MCHotSwap ------------------------------
(* Instance for TLC: two flags with two values each.                          *)
EXTENDS HotSwap

CONSTANTS gain, ex, low, high

MCKeys == {gain, ex}
MCValues == {low, high}
MCConfCmd == [k \in MCKeys |-> low]

==============================================================================
