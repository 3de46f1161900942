--------------------------- MODULE MCLoopServices ---------------------------
(* Instance for TLC.                                                        *)
EXTENDS LoopServices

\* Calm, a squall a full step away, impossible, a gust below its own speed.
MCWinds ==
  {NoWind, [speed |-> 0, gust |-> None], [speed |-> 2, gust |-> 2],
   [speed |-> 4, gust |-> None], [speed |-> 2, gust |-> 0]}
Calm == {[speed |-> 0, gust |-> None]}

\* The wind, the slow sensors and the fetches, each with the others at rest.
MCStations ==
  {[bound |-> FALSE, winds |-> MCWinds, sensors |-> {}],
   [bound |-> FALSE, winds |-> Calm, sensors |-> Slow],
   [bound |-> TRUE, winds |-> Calm, sensors |-> {}]}
=============================================================================
