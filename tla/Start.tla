-------------------------------- MODULE Start --------------------------------
(***************************************************************************)
(* The start of the container (entrypoint.sh, seed_config.py): a data      *)
(* directory without a weewx.conf gets the files of the image and, once,   *)
(* the values of the environment; then weewxd runs.  Starts are killed and *)
(* disks fill up at any moment, and between starts the operator edits the  *)
(* environment and the directory.                                          *)
(***************************************************************************)
EXTENDS Integers, FiniteSets

CONSTANTS
  Root, Below,       \* files of the image: at its top, and in its folders
  Keys,              \* configuration keys an environment variable sets
  Values,            \* legal values of the variables
  MaxStarts, MaxEdits   \* bounds: starts, and edits by the operator

Conf == "weewx.conf"
Files == Root \cup Below

ASSUME StartAssumption ==
  /\ Conf \in Root /\ Root \cap Below = {}
  /\ "none" \notin Root \cup Below
  /\ Values \cap {"unset", "bad", "default"} = {}
  /\ {MaxStarts, MaxEdits} \subseteq Nat

VARIABLES
  lacks,       \* keys the image's weewx.conf does not have
  env,         \* the variables of the container: key -> value
  disk,        \* file -> "none", "part", "image" or "own"
  vals,        \* what weewx.conf says: key -> value
  pc,          \* what the container does
  values,      \* what this start took from the environment
  copying,     \* the file being copied, or "none"
  starts, edits,
  cut          \* history: a start that seeds was killed, or a copy failed

startVars == <<lacks, env, disk, vals, pc, values, copying, starts, edits, cut>>

Given == {"unset", "bad"} \cup Values
Defaults == [k \in Keys |-> "default"]
Seeding == {"copying", "applying", "writing"}

parse_env == [k \in {k \in Keys : env[k] # "unset"} |-> env[k]]
Errors == \E k \in Keys : env[k] = "bad"

(***************************************************************************)
(* seed                                                                    *)
(***************************************************************************)
StartContainer ==
  /\ pc = "down" /\ starts < MaxStarts /\ starts' = starts + 1
  /\ \/ disk[Conf] # "none" /\ pc' = "up" /\ UNCHANGED values
     \/ disk[Conf] = "none" /\ Errors /\ UNCHANGED <<pc, values>>
     \/ disk[Conf] = "none" /\ ~Errors /\ pc' = "copying" /\ values' = parse_env
  /\ UNCHANGED <<lacks, env, disk, vals, copying, edits, cut>>

\* For the mutants: the image's file replaces what is there.
MutMissing(f) == disk[f] # "image"
Missing(f) == disk[f] = "none"

\* os.walk gives the files at the top before those of the folders.
CopyFile(f) ==
  /\ pc = "copying" /\ copying = "none" /\ Missing(f)
  /\ f \in Below => \A g \in Root : ~Missing(g)
  /\ copying' = f /\ disk' = [disk EXCEPT ![f] = "part"]
  /\ UNCHANGED <<lacks, env, vals, pc, values, starts, edits, cut>>

FileCopied ==
  /\ copying # "none" /\ copying' = "none"
  /\ disk' = [disk EXCEPT ![copying] = "image"]
  /\ vals' = IF copying = Conf THEN Defaults ELSE vals
  /\ UNCHANGED <<lacks, env, pc, values, starts, edits, cut>>

\* Nothing catches the error: what was copied stays, weewx.conf too.
CopyFails ==
  /\ copying # "none" /\ copying' = "none"
  /\ pc' = "down" /\ cut' = TRUE
  /\ UNCHANGED <<lacks, env, disk, vals, values, starts, edits>>

AllCopied ==
  /\ pc = "copying" /\ copying = "none" /\ \A f \in Files : ~Missing(f)
  /\ pc' = IF DOMAIN values = {} THEN "up" ELSE "applying"
  /\ UNCHANGED <<lacks, env, disk, vals, values, copying, starts, edits, cut>>

\* For the mutants: the error is reported and the configuration left there.
MutGiveUp == pc' = "down" /\ UNCHANGED disk
GiveUp == pc' = "down" /\ disk' = [disk EXCEPT ![Conf] = "none"]

\* apply_values: the file is read whole, and truncated to be written.
Apply ==
  /\ pc = "applying"
  /\ IF DOMAIN values \cap lacks # {} THEN GiveUp
     ELSE pc' = "writing" /\ disk' = [disk EXCEPT ![Conf] = "part"]
  /\ UNCHANGED <<lacks, env, vals, values, copying, starts, edits, cut>>

Written ==
  /\ pc = "writing" /\ pc' = "up"
  /\ disk' = [disk EXCEPT ![Conf] = "image"]
  /\ vals' = [k \in Keys |-> IF k \in DOMAIN values THEN values[k] ELSE vals[k]]
  /\ UNCHANGED <<lacks, env, values, copying, starts, edits, cut>>

WriteFails ==
  /\ pc \in {"applying", "writing"} /\ GiveUp
  /\ UNCHANGED <<lacks, env, vals, values, copying, starts, edits, cut>>

(***************************************************************************)
(* The environment                                                         *)
(***************************************************************************)
Kill ==
  /\ pc \in Seeding /\ pc' = "down"
  /\ copying' = "none" /\ cut' = TRUE
  /\ UNCHANGED <<lacks, env, disk, vals, values, starts, edits>>

Stop ==
  /\ pc = "up" /\ pc' = "down"
  /\ UNCHANGED <<lacks, env, disk, vals, values, copying, starts, edits, cut>>

\* The operator changes a variable, or a file: puts one of their own there, or
\* deletes weewx.conf to have it seeded again.
Edit ==
  /\ pc = "down" /\ edits < MaxEdits /\ edits' = edits + 1
  /\ \/ \E k \in Keys, v \in Given : env' = [env EXCEPT ![k] = v] /\ UNCHANGED disk
     \/ \E f \in Files : disk' = [disk EXCEPT ![f] = "own"] /\ UNCHANGED env
     \/ disk' = [disk EXCEPT ![Conf] = "none"] /\ UNCHANGED env
  /\ UNCHANGED <<lacks, vals, pc, values, copying, starts, cut>>

StartInit ==
  /\ lacks \in SUBSET Keys /\ env \in [Keys -> Given]
  /\ disk \in [Files -> {"none", "own"}]
  /\ vals = Defaults /\ pc = "down" /\ values = <<>> /\ copying = "none"
  /\ starts = 0 /\ edits = 0 /\ cut = FALSE

StartNext ==
  \/ StartContainer \/ FileCopied \/ CopyFails \/ AllCopied
  \/ Apply \/ Written \/ WriteFails \/ Kill \/ Stop \/ Edit
  \/ \E f \in Files : CopyFile(f)

StartSpec == StartInit /\ [][StartNext]_startVars

(***************************************************************************)
(* Properties                                                              *)
(***************************************************************************)
\* weewxd runs on the operator's own configuration, or on a whole copy of the
\* image in which each key has the value of the environment it was seeded from,
\* whatever failed in earlier starts and was edited since.  Only a start that
\* was killed in the middle, or ran out of disk while copying, breaks this: the
\* configuration it left is the next start's reason to do nothing.
Asked == [k \in Keys |-> IF k \in DOMAIN values THEN values[k] ELSE "default"]

RunsAsAsked ==
  (pc = "up" /\ disk[Conf] # "own" /\ ~cut) =>
    vals = Asked /\ \A f \in Files : disk[f] \in {"image", "own"}

\* No step of a start, whether it goes on, fails or is killed, changes a file that
\* the operator put there.
OwnFilesKept ==
  [][edits' = edits => \A f \in Files : disk[f] = "own" => disk'[f] = "own"]_startVars
==============================================================================
