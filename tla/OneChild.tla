------------------------------- MODULE OneChild -------------------------------
(***************************************************************************)
(* What a hot-swapped receiver promises to whoever watches the dongle and  *)
(* the acknowledgement file, without the steps that keep the promise       *)
(* (HotSwap).                                                              *)
(*                                                                         *)
(* There is one receiver or none.  It is gone before the next is started,  *)
(* and it runs the command the driver keeps; while the driver is up that   *)
(* command changes in no step but one that starts a receiver with it, so   *)
(* that a command which could not be started is neither kept nor told.     *)
(***************************************************************************)
CONSTANTS
  Commands,  \* what a receiver may be asked to run
  Ids,       \* handles of receivers
  None,      \* no acknowledgement yet
  Ended      \* a receiver that has ended and was not reaped

VARIABLES
  up,        \* the driver has started and has not given up
  command,   \* the command it keeps
  running,   \* the receivers there are, each with what it runs
  told       \* the last acknowledgement

childVars == <<up, command, running, told>>

ChildInit ==
  /\ up = FALSE /\ command \in Commands
  /\ running = {} /\ told = None

\* A driver that is not up makes up its command from its configuration.
Configure ==
  /\ ~up /\ running = {}
  /\ command' \in Commands
  /\ UNCHANGED <<up, running, told>>

\* One receiver is started where there was none: with the command as it is, or,
\* when the driver is up, with the one it keeps from now on.
Spawn ==
  /\ running = {}
  /\ up' = TRUE
  /\ command' \in IF up THEN Commands ELSE {command}
  /\ \E id \in Ids : running' = {<<id, command'>>}
  /\ UNCHANGED told

End ==
  /\ \E receiver \in running : running' = {<<receiver[1], Ended>>}
  /\ UNCHANGED <<up, command, told>>

\* No receiver is left, whether the driver goes on without one or not.
Clear ==
  /\ running' = {}
  /\ up' = up \/ up' = FALSE
  /\ UNCHANGED <<command, told>>

GiveUp ==
  /\ up /\ up' = FALSE
  /\ UNCHANGED <<command, running, told>>

\* The operator is told the command kept; that settings are in it only if they are,
\* and with a receiver there.
Tell ==
  /\ told' # told
  /\ told'.cmd = command
  /\ told'.status # "rejected" => up /\ running # {}
  /\ told'.status \in {"applied", "no-op"} =>
       \A k \in DOMAIN told'.settings : command[k] = told'.settings[k]
  /\ UNCHANGED <<up, command, running>>

ChildNext == Configure \/ Spawn \/ End \/ Clear \/ GiveUp \/ Tell

ChildSpec == ChildInit /\ [][ChildNext]_childVars

==============================================================================
