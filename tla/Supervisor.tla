------------------------------ MODULE Supervisor ------------------------------
(***************************************************************************)
(* The driver's supervision of the Go receiver (rtldavis.py): the reader   *)
(* thread's queue, get_stderr with its per-pass budget, and the watchdog   *)
(* state that genLoopPackets keeps across a hot swap of the child.         *)
(*                                                                         *)
(* Time is a set of ages that Tick advances together.  The child, the      *)
(* reader thread and the engine that holds a yielded packet interleave     *)
(* with the loop; what the child logs is reduced to whether a line parses  *)
(* to a data packet, to a hop of the tracked transmitter, or to nothing.   *)
(***************************************************************************)
EXTENDS Integers, Sequences

CONSTANTS
  StallTimeout,  \* STALL_TIMEOUT_S
  InitGrace,     \* INIT_GRACE_S
  Budget,        \* the 10 s of one get_stderr pass
  MaxInit,       \* the longest init of a healthy child
  HopGap,        \* the longest silence of a healthy child after its first packet
  MaxHold,       \* the longest the engine keeps a yielded packet
  MaxQueue,      \* bound: unread lines
  MaxSwaps,      \* bound: hot swaps in one behaviour
  MaxAge         \* bound: ages saturate here

ASSUME SupervisorAssumption ==
  /\ {StallTimeout, InitGrace, Budget, MaxInit, HopGap, MaxHold, MaxQueue} \subseteq Nat \ {0}
  /\ {MaxSwaps, MaxAge} \subseteq Nat
  /\ StallTimeout < InitGrace
  /\ MaxInit + Budget <= InitGrace
  /\ HopGap + MaxHold + Budget <= StallTimeout
  /\ InitGrace + Budget < MaxAge

Parsed == {"data", "hop"}         \* lines that give a non-empty packet
Kinds == Parsed \cup {"other"}    \* "other": a hop of another transmitter, a log line
Lines == [kind : Kinds, old : BOOLEAN]

VARIABLES
  pc,            \* where genLoopPackets is
  queue,         \* self._mgr.stderr_queue
  sinceReceived, \* now - time_last_received
  stall_timeout,
  rawSeen,       \* raw_since_data > 0
  passAge,       \* time spent in this get_stderr pass
  holdAge,       \* time the engine has kept the yielded packet
  alive,         \* the child process runs
  healthy,       \* it still receives
  spoke,         \* it has logged a line that parses
  goodSilence,   \* time since its last line that parses, or its start
  silence,       \* time since its last line of any kind, or its start
  staleHeard,    \* history: the last parsed line came from a child already replaced
  swaps

driverVars == <<sinceReceived, stall_timeout, rawSeen, staleHeard>>
childVars == <<alive, healthy, spoke, goodSilence, silence>>
vars == <<pc, queue, driverVars, passAge, holdAge, childVars, swaps>>

------------------------------------------------------------------------------
(* The child and its reader thread. *)

\* A freshly started child: silent until its init hears the transmitter.
FreshChild ==
  /\ alive' = TRUE
  /\ healthy' = TRUE
  /\ spoke' = FALSE
  /\ goodSilence' = 0
  /\ silence' = 0

\* At the bound a line that parses takes the last place, another one is lost.
Enqueued(q, line) ==
  IF Len(q) < MaxQueue THEN Append(q, line)
  ELSE IF line.kind \in Parsed THEN [q EXCEPT ![MaxQueue] = line]
  ELSE q

\* The child logs a line and the reader thread puts it into the queue.
Emit(kind) ==
  /\ alive
  /\ kind \in Parsed => healthy
  /\ queue' = Enqueued(queue, [kind |-> kind, old |-> FALSE])
  /\ silence' = 0
  /\ IF kind \in Parsed THEN spoke' = TRUE /\ goodSilence' = 0
                        ELSE UNCHANGED <<spoke, goodSilence>>
  /\ UNCHANGED <<pc, driverVars, passAge, holdAge, alive, healthy, swaps>>

\* The receiver hangs, or the radio path is gone: nothing parses any more.
Fail ==
  /\ alive /\ healthy
  /\ healthy' = FALSE
  /\ UNCHANGED <<pc, queue, driverVars, passAge, holdAge, alive, spoke,
                 goodSilence, silence, swaps>>

Exit ==
  /\ alive
  /\ alive' = FALSE
  /\ UNCHANGED <<pc, queue, driverVars, passAge, holdAge, healthy, spoke,
                 goodSilence, silence, swaps>>

------------------------------------------------------------------------------
(* The loop. *)

\* The watchdog state of a driver, or of a child, that just started.
ResetWatchdog ==
  /\ sinceReceived' = 0
  /\ stall_timeout' = InitGrace
  /\ rawSeen' = FALSE
  /\ staleHeard' = FALSE

\* Mutant: the swap keeps the watchdog of the child it replaced.
KeepWatchdog == UNCHANGED driverVars

SwapResets == ResetWatchdog

Init ==
  /\ pc = "loop"
  /\ queue = <<>>
  /\ sinceReceived = 0
  /\ stall_timeout = InitGrace
  /\ rawSeen = FALSE
  /\ staleHeard = FALSE
  /\ passAge = 0
  /\ holdAge = 0
  /\ alive = TRUE
  /\ healthy = TRUE
  /\ spoke = FALSE
  /\ goodSilence = 0
  /\ silence = 0
  /\ swaps = 0

\* What the swap leaves in the queue: the old child's unread lines, and at most
\* one more that its reader thread was holding when it was told to stop.
LeftOver ==
  LET aged == [i \in DOMAIN queue |-> [queue[i] EXCEPT !.old = TRUE]]
  IN  {aged} \cup {Enqueued(aged, [kind |-> k, old |-> TRUE]) : k \in Kinds}

\* _maybe_hotswap replaced the child (a rolled-back swap does so too).
Swap ==
  /\ pc = "loop" /\ alive /\ swaps < MaxSwaps
  /\ swaps' = swaps + 1
  /\ queue' \in LeftOver
  /\ FreshChild
  /\ SwapResets
  /\ UNCHANGED <<pc, passAge, holdAge>>

\* _maybe_hotswap lost the child: the rollback could not be started either.
SwapFails ==
  /\ pc = "loop" /\ alive /\ swaps < MaxSwaps
  /\ swaps' = swaps + 1
  /\ pc' = "exited"
  /\ alive' = FALSE
  /\ UNCHANGED <<queue, driverVars, passAge, holdAge, healthy, spoke,
                 goodSilence, silence>>

Overdue == sinceReceived > stall_timeout

\* "rtldavis process stalled"
Stall ==
  /\ pc = "loop" /\ alive
  /\ Overdue
  /\ pc' = "stalled"
  /\ UNCHANGED <<queue, driverVars, passAge, holdAge, childVars, swaps>>

\* A new get_stderr pass.
BeginPass ==
  /\ pc = "loop" /\ alive
  /\ ~Overdue
  /\ pc' = "read"
  /\ passAge' = 0
  /\ UNCHANGED <<queue, driverVars, holdAge, childVars, swaps>>

\* "rtldavis process is not running"
ChildGone ==
  /\ pc = "loop" /\ ~alive
  /\ pc' = "exited"
  /\ UNCHANGED <<queue, driverVars, passAge, holdAge, childVars, swaps>>

\* Mutant: every line, parsed or not, feeds the watchdog.
AnyLineCounts(kind) == TRUE

FeedsWatchdog(kind) == kind \in Parsed

\* Mutant: only lines that parse are counted as raw lines.
CountParsedOnly(kind) == IF kind = "other" THEN rawSeen ELSE kind # "data"

\* raw_since_data counts the line, and a data packet clears it.
RawAfter(kind) == kind # "data"

\* get_stderr blocks for a line: the child runs and budget is left.
Await ==
  /\ pc = "read" /\ alive /\ passAge < Budget
  /\ pc' = "wait"
  /\ UNCHANGED <<queue, driverVars, passAge, holdAge, childVars, swaps>>

\* queue.Empty: the budget ran out while it blocked.
TimeOut ==
  /\ pc = "wait" /\ queue = <<>> /\ passAge >= Budget
  /\ pc' = "read"
  /\ UNCHANGED <<queue, driverVars, passAge, holdAge, childVars, swaps>>

\* One queued line.  A data packet may be yielded, and then the engine has it.
ReadLine ==
  /\ pc = "wait" /\ queue # <<>>
  /\ queue' = Tail(queue)
  /\ LET line == Head(queue)
     IN  /\ rawSeen' = RawAfter(line.kind)
         /\ IF FeedsWatchdog(line.kind)
            THEN /\ sinceReceived' = 0
                 /\ stall_timeout' = StallTimeout
                 /\ staleHeard' = line.old
            ELSE UNCHANGED <<sinceReceived, stall_timeout, staleHeard>>
         /\ \/ pc' = "read"
            \/ line.kind = "data" /\ pc' = "held"
  /\ holdAge' = 0
  /\ UNCHANGED <<passAge, childVars, swaps>>

\* A hop whose frequency offset is absurd: the packet's parser raises.
HopRaises ==
  /\ pc = "wait" /\ queue # <<>> /\ Head(queue).kind # "data"
  /\ queue' = Tail(queue)
  /\ rawSeen' = TRUE
  /\ pc' = "exited"
  /\ UNCHANGED <<sinceReceived, stall_timeout, staleHeard, passAge, holdAge, childVars, swaps>>

\* The engine asks for the next packet.
Resume ==
  /\ pc = "held"
  /\ pc' = "read"
  /\ UNCHANGED <<queue, driverVars, passAge, holdAge, childVars, swaps>>

\* The pass is over: its budget is spent, or running() is false.
EndPass ==
  /\ pc = "read"
  /\ passAge >= Budget \/ ~alive
  /\ pc' = "loop"
  /\ UNCHANGED <<queue, driverVars, passAge, holdAge, childVars, swaps>>

\* The engine caught WeeWxIOError and builds a new driver, with its own queue.
Restart ==
  /\ pc \in {"stalled", "exited"}
  /\ pc' = "loop"
  /\ queue' = <<>>
  /\ passAge' = 0
  /\ holdAge' = 0
  /\ FreshChild
  /\ ResetWatchdog
  /\ UNCHANGED swaps

------------------------------------------------------------------------------
(* Time. *)

Aged(age) == IF age < MaxAge THEN age + 1 ELSE age

\* Mutant: the queue is waited on without a timeout, as get() does by default.
WaitForever(age) == age

PassAged(age) == Aged(age)

\* Time passes while get() blocks on an empty queue or the engine has the packet,
\* and a healthy child is not silent for longer than its init or its hop cycle.
Tick ==
  /\ \/ pc = "wait" /\ queue = <<>> /\ passAge < Budget
     \/ pc = "held" /\ holdAge < MaxHold
  /\ alive /\ healthy => goodSilence < IF spoke THEN HopGap ELSE MaxInit
  /\ sinceReceived' = Aged(sinceReceived)
  /\ passAge' = PassAged(passAge)
  /\ holdAge' = IF pc = "held" THEN Aged(holdAge) ELSE holdAge
  /\ goodSilence' = Aged(goodSilence)
  /\ silence' = Aged(silence)
  /\ UNCHANGED <<pc, queue, stall_timeout, rawSeen, staleHeard, alive, healthy,
                 spoke, swaps>>

Driver == \/ Swap \/ SwapFails \/ Stall \/ BeginPass \/ ChildGone
          \/ Await \/ TimeOut \/ ReadLine \/ HopRaises \/ EndPass

Next ==
  \/ \E kind \in Kinds : Emit(kind)
  \/ Fail
  \/ Exit
  \/ Driver
  \/ Resume
  \/ Restart
  \/ Tick

\* The loop and the clock never stop, and the engine comes back for the next packet.
Fairness == WF_vars(Driver) /\ WF_vars(Resume) /\ WF_vars(Tick)

Spec == Init /\ [][Next]_vars /\ Fairness

------------------------------------------------------------------------------
(* Properties. *)

\* A receiver that still receives is never torn down, neither in its init nor
\* behind a slow engine -- unless the watchdog was re-armed by a line of the
\* child that was swapped out.
HealthyNeverTornDown == pc = "stalled" /\ healthy => staleHeard

\* A receiver that has gone quiet is noticed: the silence of a child the loop
\* still trusts is bounded by the init deadline, one pass and the engine.
SilenceBounded ==
  pc \in {"loop", "read", "wait", "held"} /\ alive =>
    goodSilence <= InitGrace + Budget + MaxQueue * MaxHold

\* "raw_since_data == 0 means the child went totally mute": when the diagnosis
\* says mute and the stderr tail logged with it is empty, the child had not
\* written a line of any kind for the whole of the deadline.
MuteMeansMute ==
  pc = "stalled" /\ ~rawSeen /\ queue = <<>> => silence > stall_timeout

\* A child that exited, whatever was left in its pipe and wherever the loop was,
\* ends in the raise that makes the engine build a new driver (or was replaced).
DeadChildNoticed == ~alive ~> (pc \in {"exited", "stalled"} \/ alive)

==============================================================================
