---------------------------- MODULE MCRainCounter ----------------------------
(* Instance for TLC: the counter is scaled down, with the same slack between  *)
(* the cap and the wraparound threshold as in the code.                       *)
EXTENDS RainCounter

\* The helper at the program's own constants: over every baseline and every
\* plausible rise the tips are the rise, and a small dip is always refused
\* (the exhaustive test of tests/test_rain_anchor_465.py).
Real == INSTANCE RainCounter
          WITH CounterSize <- 128, MaxTips <- 16, WrapDrop <- 100

ASSUME RealConstants ==
  \A c \in 0 .. 127 :
    /\ \A k \in 0 .. 16 : Real!RainDeltaTips(c, (c + k) % 128) = k
    /\ \A k \in 1 .. 100 : c - k >= 0 => Real!RainDeltaTips(c, c - k) = NoCount

==============================================================================
