-------------------------------- MODULE RxGates --------------------------------
(***************************************************************************)
(* The gates the project's patches add to the receiver's packet loop       *)
(* (patch/rtldavis-*.patch): the duplicate gate, the burst gate and the    *)
(* time gate, in the order main.go asks them, around the hop clock they    *)
(* protect.                                                                *)
(*                                                                         *)
(* One transmitter sends a burst in every slot.  The demodulator decodes a *)
(* burst in up to two blocks, and a decode may be corrupt and still pass   *)
(* the CRC; noise that passes it looks like a burst at a random instant.   *)
(* Instants are longer than one packet's airtime and shorter than the      *)
(* gates' other windows.                                                   *)
(***************************************************************************)
EXTENDS Integers, FiniteSets

CONSTANTS
  Period,     \* the loop period of the transmitter
  DupWindow,  \* -dupwindow
  Tolerance,  \* -tolerance
  MaxMissed,  \* -maxmissed
  MaxNoise    \* bound: noise frames that pass the CRC

ASSUME RxGatesAssumption ==
  /\ {Period, DupWindow, Tolerance, MaxMissed} \subseteq Nat \ {0}
  /\ MaxNoise \in Nat
  /\ DupWindow < Period
  /\ 2 * Tolerance < Period

Payloads == {"a", "b"}                 \* what the transmitter sends
NoisePayloads == {"n", "u"}            \* noise from an active ID, and from another
Frames == Payloads \cup NoisePayloads \cup {"x"}   \* x: a corrupt decode
None == "none"

VARIABLES
  phase,       \* the instant, within the transmitter's period; it sends at 0
  sent,        \* the burst of this slot is over
  burst,       \* the burst on the air: its payload, or None
  blocks,      \* blocks it may still be decoded from
  lastRecMsg,
  sinceAccept, \* age of lastRecTime and of the burst gate's reference; saturates
  anchor,      \* phase of the schedule through chLastVisits
  init,        \* initTransmitrs
  missed,      \* slots of the hop clock in a row without an accepted frame
  heard,       \* a frame was accepted since the hop clock's last slot
  accepts,     \* history: frames accepted from this burst
  noise

gateVars == <<lastRecMsg, sinceAccept, anchor, init, missed, heard>>
airVars == <<phase, sent, burst, blocks, noise>>
vars == <<airVars, gateVars, accepts>>

Init ==
  /\ phase = 0 /\ sent = FALSE
  /\ burst = None /\ blocks = 0
  /\ lastRecMsg = None /\ sinceAccept = DupWindow
  /\ anchor = 0 /\ init = TRUE /\ missed = 0 /\ heard = FALSE
  /\ accepts = 0
  /\ noise = 0

------------------------------------------------------------------------------
(* The gates. *)

\* Offset: from this instant to the nearest slot of the schedule.
Offset ==
  LET d == (phase - anchor + Period) % Period
  IN  IF 2 * d > Period THEN d - Period ELSE d

Abs(d) == IF d < 0 THEN -d ELSE d

\* Mutant: the time gate also judges frames while there is no schedule.
OffAlways(f) == f # "u" /\ Abs(Offset) > Tolerance

\* The time gate: only a synced transmitter has a schedule, an undefined ID never.
OffSchedule(f) == ~init /\ f # "u" /\ Abs(Offset) > Tolerance

\* Mutant: the same bytes are a duplicate at any distance (before DEC-0135).
SameBytes(f) == f = lastRecMsg

Duplicate(f) == f = lastRecMsg /\ sinceAccept < DupWindow

\* Mutant: a copy is known by its bytes alone.
NoCopy == FALSE

\* The burst gate: within one airtime of the last accepted frame.
Copy == lastRecMsg # None /\ sinceAccept = 0

\* The verdict on frame f of a block: the gates in main.go's order.
Verdict(f, block) ==
  IF Duplicate(f) THEN "duplicate"
  ELSE IF Cardinality(block) > 1 THEN "conflict"
  ELSE IF Copy THEN "copy"
  ELSE IF OffSchedule(f) THEN "offschedule"
  ELSE "accept"

\* main.go hops and re-anchors its clock at once.
Hop ==
  /\ anchor' = phase
  /\ init' = FALSE
  /\ missed' = 0
  /\ heard' = TRUE

\* Accept moves both references; a frame of an active ID is then hopped on.
Accept(f) ==
  /\ lastRecMsg' = f
  /\ sinceAccept' = 0
  /\ accepts' = accepts + 1
  /\ IF f = "u" THEN UNCHANGED <<anchor, init, missed, heard>> ELSE Hop

------------------------------------------------------------------------------
(* The air. *)

\* The transmitter's slot: the receiver hears the burst, or is elsewhere.
Transmit ==
  /\ phase = 0 /\ ~sent /\ blocks = 0
  /\ sent' = TRUE
  /\ burst' \in Payloads
  /\ blocks' = 2
  /\ accepts' = 0
  /\ UNCHANGED <<phase, noise, gateVars>>

Unheard ==
  /\ phase = 0 /\ ~sent /\ blocks = 0
  /\ sent' = TRUE
  /\ UNCHANGED <<phase, burst, blocks, noise, gateVars, accepts>>

Noise ==
  /\ noise < MaxNoise /\ blocks = 0
  /\ noise' = noise + 1
  /\ burst' \in NoisePayloads
  /\ blocks' = 1
  /\ accepts' = 0
  /\ UNCHANGED <<phase, sent, gateVars>>

\* One block: the distinct frames Parse found in it, each put to the gates.  At
\* most one is accepted, for two frames of one block conflict.
Block(block) ==
  /\ blocks > 0
  /\ block \subseteq {burst, "x"}
  /\ burst \in NoisePayloads => block \subseteq {burst}
  /\ blocks' = blocks - 1
  /\ \/ \E f \in block : Verdict(f, block) = "accept" /\ Accept(f)
     \/ /\ \A f \in block : Verdict(f, block) # "accept"
        /\ UNCHANGED <<gateVars, accepts>>
  /\ UNCHANGED <<phase, sent, burst, noise>>

\* More than maxmissed slots in a row went by without a frame.
GiveUp == missed >= MaxMissed

\* The hop clock passes its own slot, shortly after a frame was due there.
AtSlot == phase = (anchor + Tolerance) % Period

Missed ==
  IF GiveUp THEN init' = TRUE /\ missed' = 0
            ELSE missed' = missed + 1 /\ UNCHANGED init

\* The clock moves on when the burst on the air is over.
Tick ==
  /\ blocks = 0
  /\ phase = 0 => sent
  /\ phase' = (phase + 1) % Period
  /\ sent' = FALSE
  /\ burst' = None
  /\ sinceAccept' = IF sinceAccept < DupWindow THEN sinceAccept + 1 ELSE sinceAccept
  /\ IF ~init /\ AtSlot
     THEN /\ heard' = FALSE
          /\ IF heard THEN UNCHANGED <<init, missed>> ELSE Missed
     ELSE UNCHANGED <<init, missed, heard>>
  /\ UNCHANGED <<blocks, noise, lastRecMsg, anchor, accepts>>

Next ==
  \/ Transmit \/ Unheard \/ Noise
  \/ \E block \in SUBSET Frames : Block(block)
  \/ Tick

\* A burst that is on the air is decoded cleanly again and again, in particular
\* when the receiver is parked on a channel the transmitter comes back to.
Clean == blocks = 2 /\ Block({burst})

Fairness ==
  /\ WF_vars(Tick)
  /\ WF_vars(Unheard \/ Transmit)
  /\ SF_vars(Transmit)
  /\ WF_vars(\E block \in SUBSET Frames : Block(block))
  /\ SF_vars(Clean)

Spec == Init /\ [][Next]_vars /\ Fairness

------------------------------------------------------------------------------
(* Properties. *)

\* One burst is one packet, however often and however badly it is decoded: no
\* second decode is accepted, hopped on and counted as a transmission (DEC-0223).
OneAcceptPerBurst == accepts <= 1

\* A clean decode of a real burst is never lost to a gate -- not to the bytes it
\* repeats (DEC-0135), nor to the copies and noise dropped before it -- while the
\* schedule is the transmitter's and nothing else was accepted in its airtime.
RealNeverDropped ==
  blocks > 0 /\ burst \in Payloads /\ accepts = 0
    /\ (lastRecMsg = None \/ sinceAccept > 0)
    /\ (init \/ Abs(Offset) <= Tolerance)
  => Verdict(burst, {burst}) = "accept"

\* How far the schedule is from the transmitter's slots.
Drift == IF 2 * anchor > Period THEN Period - anchor ELSE anchor

Astray == ~init /\ Drift > Tolerance
Synced == ~init /\ Drift <= Tolerance

\* The time gate cannot lock the station out: a schedule that noise put astray,
\* against which every real frame is dropped, is given up, and the transmitter is
\* found again.
AstrayEnds == Astray ~> Synced

==============================================================================
