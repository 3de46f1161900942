------------------------------ MODULE MCSensors ------------------------------
(* Instance for TLC.                                                        *)
EXTENDS Sensors

\* The correction table of the code, cut down to a few places.
MCSpeeds == <<1, 2, 3, 50, 55, 60, 120, 150>>
MCAngles == <<1, 4, 64, 68, 112, 128>>
MCTable == <<<<0, 0, 0, 0, 0, 0>>, <<0, 0, 0, 0, 0, 0>>, <<0, 0, 0, 0, 1, 0>>,
             <<1, 1, 2, 2, 5, -2>>, <<1, 1, 2, 2, 5, -2>>, <<1, 1, 2, 2, 5, -2>>,
             <<1, 1, 3, 3, 9, -5>>, <<2, 2, 4, 4, 12, -6>>>>

MCMoisture == <<<<992, 0>>, <<3917, 35>>, <<7201, 200>>>>
MCWetness == <<<<8570, 15>>, <<9400, 3>>, <<10130, 0>>>>

\* Calm at 70.0 F, and a cold squall: both a full step away.
MCWeather == {[speed |-> 1, dir |-> 0, temp |-> 700], [speed |-> 58, dir |-> 66, temp |-> 4090]}

\* Gust 12 mph, rain count 5, a soil temperature.
MCOrdinary == 9 :> 12 @@ 14 :> 5 @@ 15 :> 400

\* A thermistor that falls by a tenth of a degree with each raw count.
MCCurve == [r \in 1 .. 1001 |-> 1200 - r]

Frame(ty, speed, temp, digital) ==
  [ch |-> 1, low |-> TRUE, type |-> ty, mph |-> speed, dir |-> 64, raw |-> temp, flag |-> digital]

\* A wrong speed on a gust frame, an analog temperature that is not there,
\* humidity past 100 %, a type nobody sends.
MCGlitched ==
  {Frame(9, 120, 12, TRUE), Frame(8, 60, 4000, FALSE),
   Frame(10, 60, 1449, TRUE), Frame(11, 60, 0, TRUE)}
==============================================================================
