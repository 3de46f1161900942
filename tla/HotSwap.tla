-------------------------------- MODULE HotSwap --------------------------------
(***************************************************************************)
(* The hot swap of the receiver's gain and window (rtldavis.py): the       *)
(* watched control file, the acknowledgement file, the command the driver  *)
(* keeps, and the child processes that run it.                             *)
(*                                                                         *)
(* The operator rewrites the control file at any time, also between the    *)
(* driver's stat and its read.  A command is the value of every flag a     *)
(* control file may set.  Every step of a swap is one action, so that a    *)
(* restart can fall between any two.  A process killed through its handle  *)
(* has ended before shutdown returns (it waits); a sweep by name may miss. *)
(***************************************************************************)
EXTENDS Integers, FiniteSets

CONSTANTS
  Keys,         \* HOTSWAP_LIMITS: gain and ex
  Values,       \* accepted values of a key
  ConfCmd,      \* the command weewx.conf configures
  Ids,          \* handles of spawned children
  None, Zombie, \* no process, file or acknowledgement; a child that ended unreaped
  MaxWrites,    \* bound: times the operator writes the control file
  MaxFailures,  \* bound: startups, sweeps and ack writes that fail, children that end
  MaxRestarts   \* bound: container restarts and stalls

Commands == [Keys -> Values]

\* What parse_hotswap_control makes of a file: some keys, or a rejection.
Settings == UNION {[keys -> Values] : keys \in SUBSET Keys \ {{}}}
Malformed == [k \in {} |-> 0]
Contents == Settings \cup {Malformed}

ASSUME HotSwapAssumption ==
  /\ ConfCmd \in Commands
  /\ None # Zombie
  /\ {None, Zombie} \cap (Ids \cup Commands) = {}
  /\ None \notin Contents
  /\ {MaxWrites, MaxFailures, MaxRestarts} \subseteq Nat

VARIABLES
  pc,         \* what the driver does next
  cmd,        \* self.cmd
  seen,       \* self._hotswap_mtime; 0 is None
  settings,   \* the validated settings of the swap under way
  rolledBack, \* the last swap was rolled back
  file,       \* the control file's content
  mtime,      \* its modification time; 0 while there is no file
  ack,        \* the acknowledgement file
  process,    \* self._mgr._process
  proc,       \* every spawned child: none, ended and unreaped, or what it runs
  writes, failures, restarts

swapVars == <<settings, rolledBack>>
envVars == <<file, mtime, writes>>
procVars == <<process, proc>>
vars == <<pc, cmd, seen, swapVars, envVars, ack, procVars, failures, restarts>>

Init ==
  /\ pc = "down"
  /\ cmd = ConfCmd
  /\ seen = 0
  /\ settings = None /\ rolledBack = FALSE
  /\ file = None /\ mtime = 0 /\ writes = 0
  /\ ack = None
  /\ process = None
  /\ proc = [id \in Ids |-> None]
  /\ failures = 0 /\ restarts = 0

------------------------------------------------------------------------------
(* The operator and the world. *)

Write ==
  /\ writes < MaxWrites
  /\ writes' = writes + 1
  /\ mtime' = writes'
  /\ file' \in Contents
  /\ UNCHANGED <<pc, cmd, seen, swapVars, ack, procVars, failures, restarts>>

Remove ==
  /\ file # None
  /\ mtime' = 0
  /\ file' = None
  /\ UNCHANGED <<pc, cmd, seen, swapVars, writes, ack, procVars, failures, restarts>>

Failure == failures < MaxFailures /\ failures' = failures + 1

Live(id) == proc[id] \notin {None, Zombie}

ChildEnds ==
  /\ Failure
  /\ \E id \in Ids : Live(id) /\ proc' = [proc EXCEPT ![id] = Zombie]
  /\ UNCHANGED <<pc, cmd, seen, swapVars, envVars, ack, process, restarts>>

\* The container is restarted: every process is gone.
ContainerRestart ==
  /\ restarts < MaxRestarts
  /\ restarts' = restarts + 1
  /\ pc' = "down"
  /\ process' = None
  /\ proc' = [id \in Ids |-> None]
  /\ UNCHANGED <<cmd, seen, swapVars, envVars, ack, failures>>

------------------------------------------------------------------------------
(* ProcManager. *)

\* What the sweep by name finds: every live child, unless pidof fails.
SweptBy(swept) == IF swept THEN {id \in Ids : Live(id)} ELSE {}

SweepOutcome(swept) == IF swept THEN UNCHANGED failures ELSE Failure

\* The children left after some are killed, and every ended one is reaped.
Killed(ids) == [id \in Ids |-> IF id \in ids \/ ~Live(id) THEN None ELSE proc[id]]

\* Mutant: the sweep is the only kill, as before #233.
SweepAlone(swept) == SweptBy(swept)

\* shutdown kills what the sweep finds, and its own child through the handle.
ShutdownKills(swept) == SweptBy(swept) \cup {process}

Shutdown ==
  \E swept \in BOOLEAN :
    /\ SweepOutcome(swept)
    /\ proc' = Killed(ShutdownKills(swept))
    /\ UNCHANGED process

\* startup, after its own sweep and reaping, spawns a child that runs `command`.
Started(command) ==
  \E swept \in BOOLEAN :
    /\ SweepOutcome(swept)
    /\ LET left == Killed(SweptBy(swept))
       IN  \E id \in Ids :
             /\ left[id] = None
             /\ process' = id
             /\ proc' = [left EXCEPT ![id] = command]

\* Popen raises: the handle of the previous child stays where it was.
NotStarted ==
  /\ Failure
  /\ proc' = Killed(SweptBy(TRUE))
  /\ UNCHANGED process

------------------------------------------------------------------------------
(* The driver. *)

\* apply_hotswap_settings: each setting replaces its flag, the others stay.
ApplySettings(command, new) ==
  [k \in Keys |-> IF k \in DOMAIN new THEN new[k] ELSE command[k]]

\* Mutant: the command is kept as configured when the driver starts.
ConfiguredOnly == ConfCmd

\* The command of a new driver that found a valid control file.
BootCmd == ApplySettings(ConfCmd, file)

\* _write_hotswap_ack, whose own failure is only logged.
WriteAck(status, what) ==
  \/ /\ ack' = [status |-> status, settings |-> what, cmd |-> cmd]
     /\ UNCHANGED failures
  \/ Failure /\ UNCHANGED ack

\* RtldavisDriver.__init__ up to the stat of the control file.
Boot ==
  /\ pc = "down"
  /\ cmd' = ConfCmd
  /\ seen' = mtime
  /\ pc' = IF file = None THEN "start" ELSE "bootread"
  /\ settings' = None /\ rolledBack' = FALSE
  /\ process' = None
  /\ UNCHANGED <<envVars, ack, proc, failures, restarts>>

\* ... its read and its parse.
BootRead ==
  /\ pc = "bootread"
  /\ pc' = "start"
  /\ IF file \in Settings
     THEN cmd' = BootCmd /\ UNCHANGED <<ack, failures>>
     ELSE WriteAck("rejected", None) /\ UNCHANGED cmd
  /\ UNCHANGED <<seen, swapVars, envVars, procVars, restarts>>

BootStart ==
  /\ pc = "start"
  /\ \/ Started(cmd) /\ pc' = "idle"
     \/ NotStarted /\ pc' = "raised"
  /\ UNCHANGED <<cmd, seen, swapVars, envVars, ack, restarts>>

\* _maybe_hotswap: a modification time it has not acted on.
Poll ==
  /\ pc = "idle"
  /\ IF mtime \in {0, seen} THEN UNCHANGED <<pc, seen>>
                            ELSE pc' = "read" /\ seen' = mtime
  /\ UNCHANGED <<cmd, swapVars, envVars, ack, procVars, failures, restarts>>

\* _read_hotswap_settings stats again and opens; this second time is thrown away.
Read ==
  /\ pc = "read"
  /\ \/ /\ file = None
        /\ pc' = "idle"
        /\ UNCHANGED <<swapVars, ack, failures>>
     \/ /\ file \notin Settings
        /\ WriteAck("rejected", None)
        /\ pc' = "idle"
        /\ UNCHANGED swapVars
     \/ /\ file \in Settings
        /\ rolledBack' = FALSE
        /\ IF ApplySettings(cmd, file) = cmd
           THEN /\ WriteAck("no-op", file)
                /\ pc' = "idle"
                /\ UNCHANGED settings
           ELSE /\ settings' = file
                /\ pc' = "kill"
                /\ UNCHANGED <<ack, failures>>
  /\ UNCHANGED <<cmd, seen, envVars, procVars, restarts>>

SwapShutdown ==
  /\ pc = "kill"
  /\ Shutdown
  /\ pc' = "swap"
  /\ UNCHANGED <<cmd, seen, swapVars, envVars, ack, restarts>>

\* Mutant: the command is kept before it is known to start.
CmdAsAsked == ApplySettings(cmd, settings)

\* A start that fails leaves the last command known to work.
CmdAfterFailure == cmd

CmdAfterSwap == ApplySettings(cmd, settings)

SwapStart ==
  /\ pc = "swap"
  /\ \/ /\ Started(ApplySettings(cmd, settings))
        /\ cmd' = CmdAfterSwap
        /\ pc' = "acknowledge"
        /\ UNCHANGED rolledBack
     \/ /\ NotStarted
        /\ pc' = "rollback"
        /\ rolledBack' = TRUE
        /\ cmd' = CmdAfterFailure
  /\ UNCHANGED <<seen, settings, envVars, ack, restarts>>

\* The last command known to work; a second failure propagates.
Rollback ==
  /\ pc = "rollback"
  /\ \/ Started(cmd) /\ pc' = "acknowledge"
     \/ NotStarted /\ pc' = "raised"
  /\ UNCHANGED <<cmd, seen, swapVars, envVars, ack, restarts>>

Acknowledge ==
  /\ pc = "acknowledge"
  /\ WriteAck(IF rolledBack THEN "rollback" ELSE "applied", settings)
  /\ pc' = "idle"
  /\ settings' = None
  /\ UNCHANGED <<cmd, seen, rolledBack, envVars, procVars, restarts>>

\* genLoopPackets gives the child up: it ended, or it stalled.
GiveUp ==
  /\ pc = "idle"
  /\ \/ ~Live(process) /\ UNCHANGED restarts
     \/ restarts < MaxRestarts /\ restarts' = restarts + 1
  /\ pc' = "raised"
  /\ UNCHANGED <<cmd, seen, swapVars, envVars, ack, procVars, failures>>

\* The engine closes the driver and builds another one.
ClosePort ==
  /\ pc = "raised"
  /\ Shutdown
  /\ pc' = "down"
  /\ UNCHANGED <<cmd, seen, swapVars, envVars, ack, restarts>>

Next ==
  \/ Write \/ Remove \/ ChildEnds \/ ContainerRestart
  \/ Boot \/ BootRead \/ BootStart
  \/ Poll \/ Read \/ SwapShutdown \/ SwapStart \/ Rollback \/ Acknowledge
  \/ GiveUp \/ ClosePort

Spec == Init /\ [][Next]_vars

------------------------------------------------------------------------------
(* Properties. *)

\* Two receivers never fight for the device and no corpse is left beside one:
\* there is at most one child, whatever the sweep by name misses, and a driver
\* that polls has one.
OneReceiver ==
  /\ Cardinality({id \in Ids : proc[id] # None}) <= 1
  /\ pc \in {"idle", "read", "acknowledge"} => process # None /\ proc[process] # None

\* An acknowledgement says what runs at the moment it is written, and that the
\* settings it calls applied are in that command.  The run checks this as part of
\* ImplementsOneChild.
AckTellsTheTruth ==
  [][ack' # ack =>
       /\ pc' = "idle" /\ Live(process) => proc[process] = ack'.cmd
       /\ ack'.status \in {"applied", "no-op"} =>
            \A k \in DOMAIN ack'.settings : ack'.cmd[k] = ack'.settings[k]]_vars

\* No write of the control file is lost, not even one between the driver's stat
\* and its read or one made while the container was down: a file the driver
\* takes for seen is in the command that runs, unless that swap was rolled back.
FileHonoured ==
  pc = "idle" /\ Live(process) /\ seen = mtime /\ file \in Settings /\ ~rolledBack =>
    \A k \in DOMAIN file : proc[process][k] = file[k]

\* Seen from the dongle and the acknowledgement file, the steps of the swap are one
\* receiver that is cleared away, another that is started and what is told of them
\* (OneChild), whatever is rewritten, fails, ends or is restarted in between.
Receivers == {<<id, proc[id]>> : id \in {i \in Ids : proc[i] # None}}

Child == INSTANCE OneChild WITH
  Ended <- Zombie,
  up <- pc \in {"idle", "read", "kill", "swap", "rollback", "acknowledge"},
  command <- cmd,
  running <- Receivers,
  told <- ack

ImplementsOneChild == Child!ChildSpec

==============================================================================
