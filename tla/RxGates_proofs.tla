----------------------------- MODULE RxGates_proofs -----------------------------
(***************************************************************************)
(* Proofs about the receiver's gates, for every period, duplicate window,  *)
(* tolerance and any number of noise frames.                               *)
(***************************************************************************)
EXTENDS RxGates, FiniteSetTheorems, TLAPS

GateTypes ==
  /\ phase \in 0 .. Period - 1 /\ sent \in BOOLEAN
  /\ burst \in Payloads \cup NoisePayloads \cup {None} /\ blocks \in 0 .. 2
  /\ lastRecMsg \in Frames \cup {None} /\ sinceAccept \in 0 .. DupWindow
  /\ accepts \in {0, 1} /\ anchor \in 0 .. Period - 1

\* A burst that still comes in and of which a frame was accepted is in the airtime
\* of that frame.
AcceptedIsCopied == blocks > 0 /\ accepts = 1 => Copy

\* The transmitter sends at phase 0, and only then.
OnTheSlot == blocks > 0 /\ burst \in Payloads => phase = 0 /\ sent

\* What the transmitter sent was accepted in its slot: the age of the reference is
\* the time since that slot, or beyond the duplicate gate's window.
AcceptedInSlot ==
  lastRecMsg \in Payloads =>
    sinceAccept = DupWindow \/ (sinceAccept = phase /\ (phase = 0 => sent))

GateInv == GateTypes /\ AcceptedIsCopied /\ OnTheSlot /\ AcceptedInSlot

LEMMA Durations ==
  /\ Period \in Nat /\ DupWindow \in Nat /\ 0 < DupWindow /\ DupWindow < Period
  /\ Tolerance \in Nat
BY RxGatesAssumption

\* The phase after one tick.
LEMMA NextPhase ==
  ASSUME NEW p \in 0 .. Period - 1
  PROVE  (p + 1) % Period = IF p = Period - 1 THEN 0 ELSE p + 1
BY Durations

LEMMA GateInit == Init => GateInv
<1> SUFFICES ASSUME Init PROVE GateInv
  OBVIOUS
<1>1. phase \in 0 .. Period - 1 /\ sinceAccept \in 0 .. DupWindow /\ anchor = phase
  BY Durations DEF Init
<1>2. sent \in BOOLEAN
  BY DEF Init
<1>3. GateTypes
  BY <1>1, <1>2 DEF Init, GateTypes
<1>4. AcceptedIsCopied /\ OnTheSlot /\ AcceptedInSlot
  BY DEF Init, AcceptedIsCopied, OnTheSlot, AcceptedInSlot, Payloads, None
<1>5. QED
  BY <1>3, <1>4 DEF GateInv

\* A frame that passed the gates: no other of its burst did before.
LEMMA AcceptKeeps ==
  ASSUME GateInv, NEW block \in SUBSET Frames, Block(block), NEW f \in block,
         Verdict(f, block) = "accept", Accept(f)
  PROVE  GateInv'
<1>1. ~Copy
  BY DEF Verdict
<1>2. accepts = 0
  BY <1>1 DEF Block, GateInv, GateTypes, AcceptedIsCopied
<1>3. /\ lastRecMsg' = f /\ sinceAccept' = 0 /\ accepts' = 1
      /\ UNCHANGED <<phase, sent, burst>> /\ blocks > 0 /\ blocks' = blocks - 1
      /\ anchor' \in {anchor, phase}
  BY <1>2 DEF Accept, Block, Hop
<1>4. f \in Payloads => f = burst
  BY DEF Block, Payloads, NoisePayloads
<1>5. GateTypes'
  BY <1>3, Durations DEF GateInv, GateTypes
<1>6. AcceptedIsCopied'
  BY <1>3 DEF AcceptedIsCopied, Copy, Frames, Payloads, NoisePayloads, None
<1>7. OnTheSlot' /\ AcceptedInSlot'
  BY <1>3, <1>4 DEF GateInv, GateTypes, OnTheSlot, AcceptedInSlot
<1>8. QED
  BY <1>5, <1>6, <1>7 DEF GateInv

LEMMA GateStep == GateInv /\ [Next]_vars => GateInv'
<1> SUFFICES ASSUME GateInv, [Next]_vars PROVE GateInv'
  OBVIOUS
<1> USE Durations DEF GateInv, AcceptedIsCopied, OnTheSlot, AcceptedInSlot, gateVars
<1>1. CASE Transmit
  <2>1. CASE lastRecMsg \in Payloads
    BY <1>1, <2>1 DEF Transmit, GateTypes
  <2>2. CASE lastRecMsg \notin Payloads
    BY <1>1, <2>2 DEF Transmit, GateTypes
  <2>3. QED
    BY <2>1, <2>2
<1>2. CASE Unheard
  BY <1>2 DEF Unheard, GateTypes
<1>3. CASE Noise
  BY <1>3 DEF Noise, GateTypes, Payloads, NoisePayloads
<1>4. ASSUME NEW block \in SUBSET Frames, Block(block) PROVE GateInv'
  <2>1. CASE \E f \in block : Verdict(f, block) = "accept" /\ Accept(f)
    BY <1>4, <2>1, AcceptKeeps
  <2>2. CASE UNCHANGED <<gateVars, accepts>>
    BY <1>4, <2>2 DEF Block, GateTypes, Copy
  <2>3. QED
    BY <1>4, <2>1, <2>2 DEF Block
<1>5. CASE Tick
  <2>1. /\ blocks = 0 /\ blocks' = 0 /\ sent' = FALSE /\ burst' = None
        /\ UNCHANGED <<lastRecMsg, accepts, anchor>> /\ (phase = 0 => sent)
        /\ sinceAccept' = IF sinceAccept < DupWindow THEN sinceAccept + 1 ELSE sinceAccept
    BY <1>5 DEF Tick
  <2>2. phase' = IF phase = Period - 1 THEN 0 ELSE phase + 1
    BY <1>5, NextPhase DEF Tick, GateTypes
  <2>3. GateTypes'
    <3>1. sent' \in BOOLEAN
      BY <2>1
    <3>2. phase' \in 0 .. Period - 1 /\ sinceAccept' \in 0 .. DupWindow
      BY <2>1, <2>2 DEF GateTypes
    <3>3. QED
      BY <2>1, <3>1, <3>2 DEF GateTypes
  <2>4. AcceptedInSlot'
    BY <2>1, <2>2 DEF GateTypes
  <2>5. QED
    BY <2>1, <2>3, <2>4
<1>6. CASE UNCHANGED vars
  BY <1>6 DEF vars, airVars, GateTypes, Copy
<1>7. QED
  BY <1>1, <1>2, <1>3, <1>4, <1>5, <1>6 DEF Next

LEMMA GateAlways == Spec => []GateInv
<1>1. QED
  BY GateInit, GateStep, PTL DEF Spec

\* One burst is one packet, however often and however badly it is decoded.
THEOREM OneAcceptAlways == Spec => []OneAcceptPerBurst
<1>1. GateInv => OneAcceptPerBurst
  BY DEF GateInv, GateTypes, OneAcceptPerBurst
<1>2. QED
  BY <1>1, GateAlways, PTL

\* No gate drops a clean decode of a real burst, while the schedule is the
\* transmitter's and nothing else was accepted in its airtime.
THEOREM RealAlwaysPasses == Spec => []RealNeverDropped
<1>1. GateInv => RealNeverDropped
  <2> SUFFICES ASSUME GateInv, blocks > 0, burst \in Payloads,
                      lastRecMsg = None \/ sinceAccept > 0,
                      init \/ Abs(Offset) <= Tolerance
               PROVE  Verdict(burst, {burst}) = "accept"
    BY DEF RealNeverDropped
  <2>1. ~Duplicate(burst)
    BY DEF GateInv, GateTypes, OnTheSlot, AcceptedInSlot, Duplicate, Payloads, None
  <2>2. ~(Cardinality({burst}) > 1)
    BY FS_Singleton
  <2>3. ~Copy
    BY DEF GateInv, GateTypes, Copy
  <2>4. ~OffSchedule(burst)
    <3>1. Offset \in Int
      BY Durations DEF GateInv, GateTypes, Offset
    <3>2. Abs(Offset) <= Tolerance => ~(Abs(Offset) > Tolerance)
      BY <3>1, Durations DEF Abs
    <3>3. QED
      BY <3>2 DEF OffSchedule
  <2>5. QED
    BY <2>1, <2>2, <2>3, <2>4 DEF Verdict
<1>2. QED
  BY <1>1, GateAlways, PTL

==============================================================================
