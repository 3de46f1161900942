----------------------------- MODULE HotSwap_proofs -----------------------------
(***************************************************************************)
(* Proofs about the hot swap, for every set of keys, values and process    *)
(* handles, and any number of writes, failures and restarts.               *)
(***************************************************************************)
EXTENDS HotSwap, FiniteSetTheorems, TLAPS

HotSwapTypes ==
  /\ pc \in {"down", "bootread", "start", "idle", "read", "kill", "swap",
             "rollback", "acknowledge", "raised"}
  /\ cmd \in Commands
  /\ process \in Ids \cup {None}
  /\ proc \in [Ids -> Commands \cup {None, Zombie}]
  /\ settings \in Settings \cup {None} /\ rolledBack \in BOOLEAN
  /\ file \in Contents \cup {None}
  /\ writes \in Nat /\ mtime \in {0, writes} /\ seen \in 0 .. writes

\* Every child but the driver's own has been killed and reaped.
NoOther == \A id \in Ids : proc[id] # None => id = process
NoChild == \A id \in Ids : proc[id] = None

\* What the driver has where it is: before it spawns one, no child; from then on
\* one that runs the command it keeps, or has run it.
ChildInv ==
  /\ NoOther
  /\ pc \in {"down", "bootread", "start", "swap", "rollback"} => NoChild
  /\ pc \in {"idle", "read", "kill", "acknowledge"} =>
       process \in Ids /\ proc[process] \in {cmd, Zombie}

Honours(command, new) == \A k \in DOMAIN new : command[k] = new[k]

\* The file is the one of the modification time the driver acted on last.
Current == seen = mtime /\ file \in Settings

\* How far the driver is with the file it took for seen.
FileInv ==
  /\ mtime = 0 <=> file = None
  /\ pc \in {"kill", "swap", "rollback", "acknowledge"} => settings \in Settings
  /\ pc = "rollback" => rolledBack
  /\ pc = "acknowledge" => rolledBack \/ Honours(cmd, settings)
  /\ Current /\ pc \in {"kill", "swap"} => settings = file
  /\ Current /\ pc \in {"start", "idle", "acknowledge"} => rolledBack \/ Honours(cmd, file)

HotSwapInv == HotSwapTypes /\ ChildInv /\ FileInv

\* The sentinels are no commands and no handles.
LEMMA Sentinels ==
  /\ None # Zombie /\ None \notin Ids /\ None \notin Settings
  /\ None \notin Commands /\ Zombie \notin Commands /\ ConfCmd \in Commands
BY HotSwapAssumption DEF Contents

\* The operator's settings are in the command they were applied to.
LEMMA ApplySettingsHonours ==
  ASSUME NEW command \in Commands, NEW new \in Settings
  PROVE  /\ ApplySettings(command, new) \in Commands
         /\ Honours(ApplySettings(command, new), new)
<1>1. PICK keys \in SUBSET Keys : new \in [keys -> Values]
  BY DEF Settings
<1>2. ApplySettings(command, new) \in [Keys -> Values]
  BY <1>1 DEF ApplySettings, Commands
<1>3. \A k \in DOMAIN new : k \in Keys /\ ApplySettings(command, new)[k] = new[k]
  BY <1>1 DEF ApplySettings
<1>4. QED
  BY <1>2, <1>3 DEF Commands, Honours

\* A command that a file would not change has the file's settings.
LEMMA NoOpHonours ==
  ASSUME cmd \in Commands, file \in Settings, ApplySettings(cmd, file) = cmd
  PROVE  Honours(cmd, file)
BY ApplySettingsHonours

\* shutdown leaves no child, however little its sweep finds.
LEMMA ShutdownClears ==
  ASSUME HotSwapTypes, NoOther, Shutdown
  PROVE  NoChild' /\ UNCHANGED process /\ proc' \in [Ids -> {None}]
<1>1. PICK swept \in BOOLEAN : proc' = Killed(SweptBy(swept) \cup {process})
  BY DEF Shutdown, ShutdownKills
<1>2. \A id \in Ids : proc'[id] = None
  BY <1>1, Sentinels DEF Killed, NoOther, Live
<1>3. proc' \in [Ids -> {None}]
  BY <1>1, <1>2 DEF Killed
<1>4. QED
  BY <1>2, <1>3 DEF NoChild, Shutdown

\* Where there was no child, startup leaves one, or none.
LEMMA StartedAlone ==
  ASSUME HotSwapTypes, NoChild, NEW command \in Commands, Started(command)
  PROVE  /\ process' \in Ids /\ proc'[process'] = command /\ NoOther'
         /\ proc' \in [Ids -> Commands \cup {None, Zombie}]
<1>1. PICK swept \in BOOLEAN, id \in Ids :
        process' = id /\ proc' = [Killed(SweptBy(swept)) EXCEPT ![id] = command]
  BY DEF Started
<1>2. Killed(SweptBy(swept)) \in [Ids -> {None}]
  BY DEF Killed, NoChild, HotSwapTypes
<1>3. QED
  BY <1>1, <1>2 DEF NoOther

LEMMA NotStartedAlone ==
  ASSUME HotSwapTypes, NoChild, NotStarted
  PROVE  NoChild' /\ UNCHANGED process /\ proc' \in [Ids -> {None}]
<1>1. proc' = Killed(SweptBy(TRUE))
  BY DEF NotStarted
<1>2. \A id \in Ids : proc'[id] = None
  BY <1>1 DEF Killed, NoChild
<1>3. QED
  BY <1>1, <1>2 DEF Killed, NoChild, NotStarted

------------------------------------------------------------------------------
(* The inductive invariant. *)

LEMMA HotSwapInit == Init => HotSwapInv
<1> SUFFICES ASSUME Init PROVE HotSwapInv
  OBVIOUS
<1>1. cmd \in Commands /\ seen \in 0 .. writes /\ writes \in Nat
  BY Sentinels DEF Init
<1>2. rolledBack \in BOOLEAN
  BY DEF Init
<1>3. HotSwapTypes
  BY <1>1, <1>2 DEF Init, HotSwapTypes
<1>4. ChildInv /\ FileInv
  BY Sentinels DEF Init, ChildInv, FileInv, NoOther, NoChild, Current
<1>5. QED
  BY <1>3, <1>4 DEF HotSwapInv

\* The operator, whatever he writes or removes, only makes the driver's file stale.
LEMMA OperatorKeeps ==
  ASSUME HotSwapInv, Write \/ Remove
  PROVE  HotSwapInv'
<1>1. /\ UNCHANGED <<pc, cmd, seen, settings, rolledBack, process, proc>>
      /\ seen \in 0 .. writes /\ writes \in Nat
  BY DEF Write, Remove, HotSwapInv, HotSwapTypes, swapVars, procVars
<1>2. /\ writes' \in Nat /\ mtime' \in {0, writes'} /\ seen \in 0 .. writes'
      /\ file' \in Contents \cup {None} /\ (mtime' = 0 <=> file' = None)
      /\ mtime' # seen \/ file' \notin Settings
  <2>1. CASE Write
    BY <1>1, <2>1, HotSwapAssumption DEF Write
  <2>2. CASE Remove
    BY <1>1, <2>2, Sentinels DEF Remove
  <2>3. QED
    BY <2>1, <2>2
<1>3. HotSwapTypes' /\ ~Current'
  BY <1>1, <1>2 DEF HotSwapInv, HotSwapTypes, Current
<1>4. ChildInv' /\ FileInv'
  BY <1>1, <1>2, <1>3 DEF HotSwapInv, ChildInv, FileInv, NoOther, NoChild
<1>5. QED
  BY <1>3, <1>4 DEF HotSwapInv

LEMMA HotSwapStep == HotSwapInv /\ [Next]_vars => HotSwapInv'
<1> SUFFICES ASSUME HotSwapInv, [Next]_vars PROVE HotSwapInv'
  OBVIOUS
<1> USE Sentinels DEF HotSwapInv, swapVars, envVars, procVars
<1>1. CASE Write \/ Remove
  BY <1>1, OperatorKeeps
<1>2. CASE ChildEnds
  <2>1. PICK id \in Ids : Live(id) /\ proc' = [proc EXCEPT ![id] = Zombie]
    BY <1>2 DEF ChildEnds
  <2>2. UNCHANGED <<pc, cmd, seen, settings, rolledBack, file, mtime, writes, process>>
    BY <1>2 DEF ChildEnds
  <2>3. HotSwapTypes'
    BY <2>1, <2>2 DEF HotSwapTypes
  <2>4. \A i \in Ids : proc'[i] = proc[i] \/ (i = id /\ proc'[i] = Zombie /\ proc[i] # None)
    BY <2>1 DEF HotSwapTypes, Live
  <2>5. ChildInv'
    BY <2>1, <2>2, <2>4 DEF ChildInv, NoOther, NoChild
  <2>6. FileInv'
    BY <2>2 DEF FileInv, Current
  <2>7. QED
    BY <2>3, <2>5, <2>6
<1>3. CASE ContainerRestart
  BY <1>3 DEF ContainerRestart, HotSwapTypes, ChildInv, NoOther, NoChild, FileInv, Current
<1>4. CASE Boot
  <2>1. HotSwapTypes'
    <3>1. cmd' = ConfCmd /\ seen' = mtime /\ UNCHANGED <<proc, file, writes, mtime>>
          /\ pc' \in {"start", "bootread"} /\ settings' = None /\ process' = None
      BY <1>4 DEF Boot
    <3>2. rolledBack' \in BOOLEAN
      BY <1>4 DEF Boot
    <3>3. mtime \in 0 .. writes
      BY DEF HotSwapTypes
    <3>4. cmd' \in Commands
      BY <3>1
    <3>5. QED
      BY <3>1, <3>2, <3>3, <3>4 DEF HotSwapTypes
  <2>2. ChildInv'
    BY <1>4 DEF Boot, ChildInv, NoOther, NoChild
  <2>3. FileInv'
    BY <1>4 DEF Boot, FileInv, Current
  <2>4. QED
    BY <2>1, <2>2, <2>3
<1>5. CASE BootRead
  <2>1. CASE file \in Settings /\ cmd' = BootCmd
    <3>1. cmd' \in Commands /\ Honours(cmd', file)
      BY <2>1, HotSwapAssumption, ApplySettingsHonours DEF BootCmd
    <3>2. QED
      BY <1>5, <3>1 DEF BootRead, HotSwapTypes, ChildInv, NoOther, NoChild, FileInv, Current
  <2>2. CASE file \notin Settings /\ UNCHANGED cmd
    BY <1>5, <2>2 DEF BootRead, HotSwapTypes, ChildInv, NoOther, NoChild, FileInv, Current
  <2>3. QED
    BY <1>5, <2>1, <2>2 DEF BootRead
<1>6. CASE BootStart
  <2>1. NoChild /\ cmd \in Commands
    BY <1>6 DEF BootStart, ChildInv, HotSwapTypes
  <2>2. CASE Started(cmd) /\ pc' = "idle"
    <3>1. /\ process' \in Ids /\ proc'[process'] = cmd /\ NoOther'
          /\ proc' \in [Ids -> Commands \cup {None, Zombie}]
      BY <2>1, <2>2, StartedAlone
    <3>2. QED
      BY <1>6, <2>2, <3>1 DEF BootStart, HotSwapTypes, ChildInv, FileInv, Current
  <2>3. CASE NotStarted /\ pc' = "raised"
    <3>1. NoChild' /\ UNCHANGED process /\ proc' \in [Ids -> {None}]
      BY <2>1, <2>3, NotStartedAlone
    <3>2. QED
      BY <1>6, <2>3, <3>1
      DEF BootStart, HotSwapTypes, ChildInv, NoChild, NoOther, FileInv, Current
  <2>4. QED
    BY <1>6, <2>2, <2>3 DEF BootStart
<1>7. CASE Poll
  BY <1>7 DEF Poll, HotSwapTypes, ChildInv, NoOther, NoChild, FileInv, Current
<1>8. CASE Read
  <2>1. UNCHANGED <<cmd, seen, file, mtime, writes, process, proc>> /\ pc = "read"
    BY <1>8 DEF Read
  <2>2. CASE file \notin Settings /\ pc' = "idle" /\ UNCHANGED <<settings, rolledBack>>
    BY <2>1, <2>2 DEF HotSwapTypes, ChildInv, NoOther, NoChild, FileInv, Current
  <2>3. CASE file \in Settings /\ ApplySettings(cmd, file) = cmd /\ pc' = "idle"
             /\ rolledBack' = FALSE /\ UNCHANGED settings
    <3>1. Honours(cmd, file)
      BY <2>3, NoOpHonours DEF HotSwapTypes
    <3>2. QED
      BY <2>1, <2>3, <3>1 DEF HotSwapTypes, ChildInv, NoOther, NoChild, FileInv, Current
  <2>4. CASE file \in Settings /\ settings' = file /\ pc' = "kill" /\ rolledBack' = FALSE
    BY <2>1, <2>4 DEF HotSwapTypes, ChildInv, NoOther, NoChild, FileInv, Current
  <2>5. QED
    BY <1>8, <2>2, <2>3, <2>4 DEF Read
<1>9. CASE SwapShutdown
  <2>1. NoChild' /\ UNCHANGED process /\ proc' \in [Ids -> {None}]
    BY <1>9, ShutdownClears DEF SwapShutdown, ChildInv
  <2>2. QED
    BY <1>9, <2>1
    DEF SwapShutdown, HotSwapTypes, ChildInv, NoOther, NoChild, FileInv, Current
<1>10. CASE SwapStart
  <2>1. /\ NoChild /\ settings \in Settings /\ pc = "swap"
        /\ UNCHANGED <<seen, settings, file, mtime, writes>>
    BY <1>10 DEF SwapStart, ChildInv, FileInv
  <2>2. CASE Started(CmdAfterSwap) /\ cmd' = CmdAfterSwap /\ pc' = "acknowledge"
             /\ UNCHANGED rolledBack
    <3>1. cmd' \in Commands /\ Honours(cmd', settings)
      BY <2>1, <2>2, ApplySettingsHonours DEF CmdAfterSwap, HotSwapTypes
    <3>2. /\ process' \in Ids /\ proc'[process'] = cmd' /\ NoOther'
          /\ proc' \in [Ids -> Commands \cup {None, Zombie}]
      BY <2>1, <2>2, <3>1, StartedAlone
    <3>3. QED
      BY <2>1, <2>2, <3>1, <3>2 DEF HotSwapTypes, ChildInv, FileInv, Current
  <2>3. CASE NotStarted /\ pc' = "rollback" /\ rolledBack' = TRUE /\ UNCHANGED cmd
    <3>1. NoChild' /\ UNCHANGED process /\ proc' \in [Ids -> {None}]
      BY <2>1, <2>3, NotStartedAlone
    <3>2. QED
      BY <2>1, <2>3, <3>1 DEF HotSwapTypes, ChildInv, NoChild, NoOther, FileInv, Current
  <2>4. QED
    BY <1>10, <2>2, <2>3 DEF SwapStart, CmdAfterSwap, CmdAfterFailure
<1>11. CASE Rollback
  <2>1. NoChild /\ cmd \in Commands /\ rolledBack
    BY <1>11 DEF Rollback, ChildInv, FileInv, HotSwapTypes
  <2>2. CASE Started(cmd) /\ pc' = "acknowledge"
    <3>1. /\ process' \in Ids /\ proc'[process'] = cmd /\ NoOther'
          /\ proc' \in [Ids -> Commands \cup {None, Zombie}]
      BY <2>1, <2>2, StartedAlone
    <3>2. QED
      BY <1>11, <2>1, <2>2, <3>1 DEF Rollback, HotSwapTypes, ChildInv, FileInv, Current
  <2>3. CASE NotStarted /\ pc' = "raised"
    <3>1. NoChild' /\ UNCHANGED process /\ proc' \in [Ids -> {None}]
      BY <2>1, <2>3, NotStartedAlone
    <3>2. QED
      BY <1>11, <2>3, <3>1
      DEF Rollback, HotSwapTypes, ChildInv, NoChild, NoOther, FileInv, Current
  <2>4. QED
    BY <1>11, <2>2, <2>3 DEF Rollback
<1>12. CASE Acknowledge
  BY <1>12 DEF Acknowledge, HotSwapTypes, ChildInv, NoOther, NoChild, FileInv, Current
<1>13. CASE GiveUp
  BY <1>13 DEF GiveUp, HotSwapTypes, ChildInv, NoOther, NoChild, FileInv, Current
<1>14. CASE ClosePort
  <2>1. NoChild' /\ UNCHANGED process /\ proc' \in [Ids -> {None}]
    BY <1>14, ShutdownClears DEF ClosePort, ChildInv
  <2>2. QED
    BY <1>14, <2>1
    DEF ClosePort, HotSwapTypes, ChildInv, NoOther, NoChild, FileInv, Current
<1>15. CASE UNCHANGED vars
  BY <1>15 DEF vars, HotSwapTypes, ChildInv, NoOther, NoChild, FileInv, Current
<1>16. QED
  BY <1>1, <1>2, <1>3, <1>4, <1>5, <1>6, <1>7, <1>8, <1>9, <1>10, <1>11, <1>12,
     <1>13, <1>14, <1>15 DEF Next

LEMMA HotSwapAlways == Spec => []HotSwapInv
<1>1. QED
  BY HotSwapInit, HotSwapStep, PTL DEF Spec

------------------------------------------------------------------------------
(* The theorems. *)

\* There is at most one receiver, whatever the sweeps by name miss, and the driver
\* polls only when it has one (#233).
THEOREM OneReceiverAlways == Spec => []OneReceiver
<1>1. HotSwapInv => OneReceiver
  <2> SUFFICES ASSUME HotSwapInv PROVE OneReceiver
    OBVIOUS
  <2> DEFINE children == {id \in Ids : proc[id] # None}
  <2>1. children = {} \/ children = {process}
    BY DEF HotSwapInv, ChildInv, NoOther
  <2>2. Cardinality(children) <= 1
    <3>1. Cardinality({}) = 0 /\ Cardinality({process}) = 1
      BY FS_EmptySet, FS_Singleton
    <3>2. QED
      BY <2>1, <3>1
  <2>3. pc \in {"idle", "read", "acknowledge"} => process # None /\ proc[process] # None
    BY Sentinels DEF HotSwapInv, HotSwapTypes, ChildInv
  <2>4. QED
    BY <2>2, <2>3 DEF OneReceiver
<1>2. QED
  BY <1>1, HotSwapAlways, PTL

\* A file the driver takes for seen is in the command that runs, unless its swap
\* was rolled back: no write falls between a stat and a read, or into a restart.
THEOREM NoWriteLost == Spec => []FileHonoured
<1>1. HotSwapInv => FileHonoured
  BY DEF HotSwapInv, ChildInv, FileInv, FileHonoured, Current, Honours, Live
<1>2. QED
  BY <1>1, HotSwapAlways, PTL

\* What an acknowledgement says runs, does, and it calls no settings applied that
\* are not in the command.
THEOREM AcksTellTheTruth == Spec => AckTellsTheTruth
<1> DEFINE Truth ==
      ack' # ack =>
       /\ pc' = "idle" /\ Live(process) => proc[process] = ack'.cmd
       /\ ack'.status \in {"applied", "no-op"} =>
            \A k \in DOMAIN ack'.settings : ack'.cmd[k] = ack'.settings[k]
<1>1. HotSwapInv /\ [Next]_vars => [Truth]_vars
  <2> SUFFICES ASSUME HotSwapInv, Next, ack' # ack PROVE Truth
    OBVIOUS
  <2>1. BootRead \/ Read \/ Acknowledge
    BY DEF Next, Write, Remove, ChildEnds, ContainerRestart, Boot, BootStart, Poll,
           SwapShutdown, SwapStart, Rollback, GiveUp, ClosePort
  <2>2. CASE BootRead
    <3>1. ack'.status = "rejected" /\ pc' = "start"
      BY <2>2 DEF BootRead, WriteAck
    <3>2. QED
      BY <3>1
  <2>3. CASE Read
    <3>1. ack'.cmd = cmd /\ (Live(process) => proc[process] = cmd)
      BY <2>3 DEF Read, WriteAck, HotSwapInv, ChildInv, Live
    <3>2. CASE ack'.status = "rejected"
      BY <3>1, <3>2
    <3>3. CASE file \in Settings /\ ApplySettings(cmd, file) = cmd /\ ack'.settings = file
      <4>1. Honours(cmd, file)
        BY <3>3, NoOpHonours DEF HotSwapInv, HotSwapTypes
      <4>2. QED
        BY <3>1, <3>3, <4>1 DEF Honours
    <3>4. QED
      BY <2>3, <3>2, <3>3 DEF Read, WriteAck
  <2>4. CASE Acknowledge
    <3>1. /\ ack'.cmd = cmd /\ (Live(process) => proc[process] = cmd)
          /\ ack'.settings = settings
          /\ ack'.status = IF rolledBack THEN "rollback" ELSE "applied"
      BY <2>4 DEF Acknowledge, WriteAck, HotSwapInv, ChildInv, Live
    <3>2. rolledBack \/ Honours(cmd, settings)
      BY <2>4 DEF Acknowledge, HotSwapInv, FileInv
    <3>3. QED
      BY <3>1, <3>2 DEF Honours
  <2>5. QED
    BY <2>1, <2>2, <2>3, <2>4
<1>2. QED
  BY <1>1, HotSwapAlways, PTL DEF Spec, AckTellsTheTruth

------------------------------------------------------------------------------
(* The implementation of OneChild. *)

Up == pc \in {"idle", "read", "kill", "swap", "rollback", "acknowledge"}

\* Where there is no child no receiver is seen, where there is one it is the driver's.
LEMMA ReceiversAreTheChild ==
  ASSUME HotSwapInv
  PROVE  /\ NoChild => Receivers = {}
         /\ process \in Ids /\ proc[process] # None
              => Receivers = {<<process, proc[process]>>}
BY DEF HotSwapInv, ChildInv, NoOther, NoChild, Receivers

LEMMA ReceiversFollow ==
  ASSUME HotSwapInv'
  PROVE  /\ NoChild' => Receivers' = {}
         /\ process' \in Ids /\ proc'[process'] # None
              => Receivers' = {<<process', proc'[process']>>}
BY DEF HotSwapInv, ChildInv, NoOther, NoChild, Receivers

\* Each step of the driver and of its surroundings is one of OneChild, or none.
LEMMA StepImplements ==
  ASSUME HotSwapInv, [Next]_vars, HotSwapInv'
  PROVE  [Child!ChildNext]_(Child!childVars)
<1> DEFINE Same == UNCHANGED <<Up, cmd, Receivers, ack>>
<1>0. Same => [Child!ChildNext]_(Child!childVars)
  BY DEF Child!childVars, Up
<1> USE Sentinels DEF HotSwapInv, swapVars, envVars, procVars
<1> HIDE DEF Same
<1>1. ASSUME UNCHANGED proc PROVE UNCHANGED Receivers
  BY <1>1 DEF Receivers
<1>2. CASE Write \/ Remove
  BY <1>0, <1>1, <1>2 DEF Same, Write, Remove, Up
<1>3. CASE ChildEnds
  <2>1. PICK id \in Ids : Live(id) /\ proc' = [proc EXCEPT ![id] = Zombie]
    BY <1>3 DEF ChildEnds
  <2>2. id = process /\ process \in Ids /\ UNCHANGED <<pc, cmd, ack, process>>
    BY <1>3, <2>1 DEF ChildEnds, ChildInv, NoOther, Live
  <2>3. proc[process] # None /\ proc'[process] = Zombie
    BY <2>1, <2>2 DEF Live, HotSwapTypes
  <2>4. /\ Receivers = {<<process, proc[process]>>}
        /\ Receivers' = {<<process, Zombie>>}
    BY <2>2, <2>3, ReceiversAreTheChild, ReceiversFollow
  <2>5. Child!End
    BY <2>2, <2>4 DEF Child!End
  <2>6. QED
    BY <2>5 DEF Child!ChildNext
<1>4. CASE ContainerRestart
  <2>1. Receivers' = {}
    BY <1>4 DEF ContainerRestart, Receivers
  <2>2. Child!Clear
    BY <1>4, <2>1 DEF ContainerRestart, Child!Clear
  <2>3. QED
    BY <2>2 DEF Child!ChildNext
<1>5. CASE Boot
  <2>1. Receivers = {} /\ UNCHANGED Receivers
    BY <1>1, <1>5, ReceiversAreTheChild DEF Boot, ChildInv
  <2>2. Child!Configure
    BY <1>5, <2>1 DEF Boot, Child!Configure
  <2>3. QED
    BY <2>2 DEF Child!ChildNext
<1>6. CASE BootRead
  <2>1. Receivers = {} /\ UNCHANGED Receivers
    BY <1>1, <1>6, ReceiversAreTheChild DEF BootRead, ChildInv
  <2>2. CASE UNCHANGED ack
    <3>1. Child!Configure
      BY <1>6, <2>1, <2>2 DEF BootRead, Child!Configure, HotSwapTypes
    <3>2. QED
      BY <3>1 DEF Child!ChildNext
  <2>3. CASE ack' # ack
    <3>1. ack' = [status |-> "rejected", settings |-> None, cmd |-> cmd] /\ UNCHANGED cmd
      BY <1>6, <2>3 DEF BootRead, WriteAck
    <3>2. Child!Tell
      BY <1>6, <2>1, <2>3, <3>1 DEF BootRead, Child!Tell
    <3>3. QED
      BY <3>2 DEF Child!ChildNext
  <2>4. QED
    BY <2>2, <2>3
<1>7. CASE BootStart
  <2>1. NoChild /\ Receivers = {} /\ cmd \in Commands /\ UNCHANGED <<cmd, ack>>
    BY <1>7, ReceiversAreTheChild DEF BootStart, ChildInv, HotSwapTypes
  <2>2. CASE Started(cmd) /\ pc' = "idle"
    <3>1. process' \in Ids /\ proc'[process'] = cmd
      BY <2>1, <2>2, StartedAlone
    <3>2. Receivers' = {<<process', cmd'>>}
      BY <2>1, <3>1, ReceiversFollow
    <3>3. Child!Spawn
      BY <1>7, <2>1, <2>2, <3>1, <3>2 DEF BootStart, Child!Spawn
    <3>4. QED
      BY <3>3 DEF Child!ChildNext
  <2>3. CASE NotStarted /\ pc' = "raised"
    <3>1. NoChild'
      BY <2>1, <2>3, NotStartedAlone
    <3>2. QED
      BY <1>0, <1>7, <2>1, <2>3, <3>1, ReceiversFollow DEF BootStart, Same, Up
  <2>4. QED
    BY <1>7, <2>2, <2>3 DEF BootStart
<1>8. CASE Poll
  BY <1>0, <1>1, <1>8 DEF Same, Poll, Up
<1>9. CASE Read
  <2>1. /\ UNCHANGED <<cmd, Receivers>> /\ pc = "read" /\ pc' \in {"idle", "kill"}
        /\ Receivers # {}
    BY <1>1, <1>9, ReceiversAreTheChild DEF Read, ChildInv, HotSwapTypes
  <2>2. CASE UNCHANGED ack
    BY <1>0, <2>1, <2>2 DEF Same, Up
  <2>3. CASE ack' # ack
    <3>1. CASE ack' = [status |-> "rejected", settings |-> None, cmd |-> cmd]
      <4>1. Child!Tell
        BY <2>1, <2>3, <3>1 DEF Child!Tell
      <4>2. QED
        BY <4>1 DEF Child!ChildNext
    <3>2. CASE /\ ack' = [status |-> "no-op", settings |-> file, cmd |-> cmd]
               /\ file \in Settings /\ ApplySettings(cmd, file) = cmd
      <4>1. Honours(cmd, file)
        BY <3>2, NoOpHonours DEF HotSwapTypes
      <4>2. Child!Tell
        BY <2>1, <2>3, <3>2, <4>1 DEF Child!Tell, Honours
      <4>3. QED
        BY <4>2 DEF Child!ChildNext
    <3>3. QED
      BY <1>9, <2>3, <3>1, <3>2 DEF Read, WriteAck
  <2>4. QED
    BY <2>2, <2>3
<1>10. CASE SwapShutdown
  <2>1. NoChild'
    BY <1>10, ShutdownClears DEF SwapShutdown, ChildInv
  <2>2. Receivers' = {}
    BY <2>1, ReceiversFollow
  <2>3. Child!Clear
    BY <1>10, <2>2 DEF SwapShutdown, Child!Clear
  <2>4. QED
    BY <2>3 DEF Child!ChildNext
<1>11. CASE SwapStart
  <2>1. NoChild /\ Receivers = {} /\ settings \in Settings /\ UNCHANGED ack /\ pc = "swap"
    BY <1>11, ReceiversAreTheChild DEF SwapStart, ChildInv, FileInv
  <2>2. CASE Started(CmdAfterSwap) /\ cmd' = CmdAfterSwap /\ pc' = "acknowledge"
    <3>1. cmd' \in Commands
      BY <2>1, <2>2, ApplySettingsHonours DEF CmdAfterSwap, HotSwapTypes
    <3>2. process' \in Ids /\ proc'[process'] = cmd'
      BY <2>1, <2>2, <3>1, StartedAlone
    <3>3. Receivers' = {<<process', cmd'>>}
      BY <3>1, <3>2, ReceiversFollow
    <3>4. Child!Spawn
      BY <2>1, <2>2, <3>1, <3>2, <3>3 DEF Child!Spawn
    <3>5. QED
      BY <3>4 DEF Child!ChildNext
  <2>3. CASE NotStarted /\ pc' = "rollback" /\ UNCHANGED cmd
    <3>1. NoChild'
      BY <2>1, <2>3, NotStartedAlone
    <3>2. QED
      BY <1>0, <2>1, <2>3, <3>1, ReceiversFollow DEF Same, Up
  <2>4. QED
    BY <1>11, <2>2, <2>3 DEF SwapStart, CmdAfterSwap, CmdAfterFailure
<1>12. CASE Rollback
  <2>1. NoChild /\ Receivers = {} /\ cmd \in Commands /\ UNCHANGED <<cmd, ack>>
        /\ pc = "rollback"
    BY <1>12, ReceiversAreTheChild DEF Rollback, ChildInv, HotSwapTypes
  <2>2. CASE Started(cmd) /\ pc' = "acknowledge"
    <3>1. process' \in Ids /\ proc'[process'] = cmd
      BY <2>1, <2>2, StartedAlone
    <3>2. Receivers' = {<<process', cmd'>>}
      BY <2>1, <3>1, ReceiversFollow
    <3>3. Child!Spawn
      BY <2>1, <2>2, <3>1, <3>2 DEF Child!Spawn
    <3>4. QED
      BY <3>3 DEF Child!ChildNext
  <2>3. CASE NotStarted /\ pc' = "raised"
    <3>1. Receivers' = {}
      BY <2>1, <2>3, NotStartedAlone, ReceiversFollow
    <3>2. Child!Clear
      BY <2>1, <2>3, <3>1 DEF Child!Clear
    <3>3. QED
      BY <3>2 DEF Child!ChildNext
  <2>4. QED
    BY <1>12, <2>2, <2>3 DEF Rollback
<1>13. CASE Acknowledge
  <2>1. /\ UNCHANGED <<cmd, Receivers>> /\ pc = "acknowledge" /\ pc' = "idle"
        /\ Receivers # {}
    BY <1>1, <1>13, ReceiversAreTheChild DEF Acknowledge, ChildInv, HotSwapTypes
  <2>2. CASE UNCHANGED ack
    BY <1>0, <2>1, <2>2 DEF Same, Up
  <2>3. CASE ack' # ack
    <3>1. ack' = [status |-> IF rolledBack THEN "rollback" ELSE "applied",
                  settings |-> settings, cmd |-> cmd]
      BY <1>13, <2>3 DEF Acknowledge, WriteAck
    <3>2. rolledBack \/ Honours(cmd, settings)
      BY <2>1 DEF FileInv
    <3>3. Child!Tell
      BY <2>1, <2>3, <3>1, <3>2 DEF Child!Tell, Honours
    <3>4. QED
      BY <3>3 DEF Child!ChildNext
  <2>4. QED
    BY <2>2, <2>3
<1>14. CASE GiveUp
  <2>1. Child!GiveUp
    BY <1>1, <1>14 DEF GiveUp, Child!GiveUp
  <2>2. QED
    BY <2>1 DEF Child!ChildNext
<1>15. CASE ClosePort
  <2>1. NoChild'
    BY <1>15, ShutdownClears DEF ClosePort, ChildInv
  <2>2. Receivers' = {}
    BY <2>1, ReceiversFollow
  <2>3. Child!Clear
    BY <1>15, <2>2 DEF ClosePort, Child!Clear
  <2>4. QED
    BY <2>3 DEF Child!ChildNext
<1>16. CASE UNCHANGED vars
  BY <1>0, <1>1, <1>16 DEF vars, Same, Up
<1>17. QED
  BY <1>2, <1>3, <1>4, <1>5, <1>6, <1>7, <1>8, <1>9, <1>10, <1>11, <1>12,
     <1>13, <1>14, <1>15, <1>16 DEF Next

\* The hot swap implements OneChild: between rewrites of the file, failures, ends and
\* restarts, what is seen from outside is one receiver at a time, and acknowledgements
\* that are true of it.
THEOREM HotSwapImplementsOneChild == Spec => ImplementsOneChild
<1>1. Init => Child!ChildInit
  BY Sentinels DEF Init, Child!ChildInit, Receivers
<1>2. HotSwapInv /\ [Next]_vars /\ HotSwapInv' => [Child!ChildNext]_(Child!childVars)
  BY StepImplements
<1>3. QED
  BY <1>1, <1>2, HotSwapAlways, PTL DEF Spec, ImplementsOneChild, Child!ChildSpec

==============================================================================
