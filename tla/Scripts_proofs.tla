---------------------------- MODULE Scripts_proofs ----------------------------
(***************************************************************************)
(* Proofs about the two shell programs: the container start, for every     *)
(* tree of files, set of keys and values, and any number of starts, kills, *)
(* failures and edits; and the receiver campaign, for every schedule, and  *)
(* any number of faults, reboots and manual aborts.                        *)
(***************************************************************************)
EXTENDS Start, Campaign, TLAPS

(***************************************************************************)
(* Container start: weewxd runs on what was asked for, and a start changes *)
(* no file of the operator's.                                              *)
(***************************************************************************)

StartTypes ==
  /\ disk \in [Files -> {"none", "part", "image", "own"}]
  /\ pc \in Seeding \cup {"down", "up"}
  /\ copying \in Files \cup {"none"}
  /\ cut \in BOOLEAN /\ edits \in Nat

\* What a start that seeds has done so far, killed ones before it or not.
SeedingInv ==
  /\ pc \in Seeding => disk[Conf] # "own"
  /\ copying # "none" => pc = "copying" /\ disk[copying] = "part"
  /\ pc = "copying" => (disk[Conf] = "part" => copying = Conf)
  /\ pc = "applying" => disk[Conf] = "image"
  /\ (pc = "copying" /\ disk[Conf] = "image") => vals = Defaults
  /\ pc \in {"applying", "writing"} => vals = Defaults /\ \A f \in Files : ~Missing(f)

\* Files are in part only while they are written, and a weewx.conf that a start
\* has left there is complete.
UncutInv ==
  ~cut =>
    /\ \A f \in Files : disk[f] = "part" => copying = f \/ (f = Conf /\ pc = "writing")
    /\ (pc \in {"up", "down"} /\ disk[Conf] = "image") =>
         vals = Asked /\ \A f \in Files : ~Missing(f)

\* weewxd is only ever running on some weewx.conf.
UpInv == pc = "up" => disk[Conf] # "none"

StartInv == StartTypes /\ SeedingInv /\ UncutInv /\ UpInv

LEMMA ConfIsAFile == Conf \in Files /\ Conf # "none" /\ "none" \notin Files
BY StartAssumption DEF Files

LEMMA StartInitInv == StartInit => StartInv
<1> SUFFICES ASSUME StartInit PROVE StartInv
  OBVIOUS
<1>1. disk \in [Files -> {"none", "own"}] /\ pc = "down" /\ copying = "none" /\ cut = FALSE
        /\ edits = 0
  BY DEF StartInit
<1>2. disk[Conf] # "image" /\ \A f \in Files : disk[f] # "part"
  BY <1>1, ConfIsAFile
<1>3. StartTypes
  BY <1>1 DEF StartTypes
<1>4. SeedingInv /\ UncutInv /\ UpInv
  BY <1>1, <1>2 DEF SeedingInv, UncutInv, UpInv, Seeding
<1>5. QED
  BY <1>3, <1>4 DEF StartInv

\* A configuration that could not be written is removed.
LEMMA GiveUpKeeps ==
  ASSUME StartInv, pc \in {"applying", "writing"}, GiveUp,
         UNCHANGED <<vals, values, copying, edits, cut>>
  PROVE StartInv'
<1>1. disk' = [disk EXCEPT ![Conf] = "none"] /\ pc' = "down" /\ copying = "none"
  BY DEF GiveUp, StartInv, SeedingInv
<1>2. disk'[Conf] = "none" /\ \A f \in Files \ {Conf} : disk'[f] = disk[f]
  BY <1>1, ConfIsAFile DEF StartInv, StartTypes
<1>3. StartTypes'
  BY <1>1, ConfIsAFile DEF StartInv, StartTypes
<1>4. SeedingInv' /\ UpInv'
  BY <1>1 DEF SeedingInv, UpInv, Seeding
<1>5. UncutInv'
  BY <1>1, <1>2 DEF StartInv, UncutInv
<1>6. QED
  BY <1>3, <1>4, <1>5 DEF StartInv

LEMMA StartStep == StartInv /\ [StartNext]_startVars => StartInv'
<1> SUFFICES ASSUME StartInv, [StartNext]_startVars PROVE StartInv'
  OBVIOUS
<1> USE ConfIsAFile DEF StartInv, Missing, Seeding
<1>1. CASE StartContainer
  <2>1. UNCHANGED <<disk, vals, copying, edits, cut>> /\ pc = "down" /\ copying = "none"
    BY <1>1 DEF StartContainer, SeedingInv
  <2>2. CASE disk[Conf] # "none" /\ pc' = "up" /\ UNCHANGED values
    BY <2>1, <2>2 DEF StartTypes, SeedingInv, UncutInv, UpInv, Asked
  <2>3. CASE UNCHANGED <<pc, values>>
    BY <2>1, <2>3 DEF StartTypes, SeedingInv, UncutInv, UpInv, Asked
  <2>4. CASE disk[Conf] = "none" /\ pc' = "copying"
    BY <2>1, <2>4 DEF StartTypes, SeedingInv, UncutInv, UpInv
  <2>5. QED
    BY <1>1, <2>2, <2>3, <2>4 DEF StartContainer
<1>2. ASSUME NEW f \in Files, CopyFile(f) PROVE StartInv'
  <2>1. pc = "copying" /\ copying = "none" /\ disk[f] = "none" /\ copying' = f
        /\ disk' = [disk EXCEPT ![f] = "part"] /\ UNCHANGED <<pc, vals, values, edits, cut>>
    BY <1>2 DEF CopyFile
  <2>2. disk'[f] = "part" /\ \A g \in Files \ {f} : disk'[g] = disk[g]
    BY <2>1 DEF StartTypes
  <2>3. StartTypes'
    BY <2>1 DEF StartTypes
  <2>4. SeedingInv' /\ UncutInv' /\ UpInv'
    BY <2>1, <2>2 DEF SeedingInv, UncutInv, UpInv
  <2>5. QED
    BY <2>3, <2>4
<1>3. CASE FileCopied
  <2> DEFINE f == copying
  <2>1. f \in Files /\ pc = "copying" /\ disk[f] = "part" /\ copying' = "none"
        /\ disk' = [disk EXCEPT ![f] = "image"] /\ UNCHANGED <<pc, values, edits, cut>>
        /\ vals' = (IF f = Conf THEN Defaults ELSE vals)
    BY <1>3 DEF FileCopied, SeedingInv, StartTypes
  <2>2. disk'[f] = "image" /\ \A g \in Files \ {f} : disk'[g] = disk[g]
    BY <2>1 DEF StartTypes
  <2>3. StartTypes'
    BY <2>1 DEF StartTypes
  <2>4. SeedingInv' /\ UncutInv' /\ UpInv'
    BY <2>1, <2>2 DEF SeedingInv, UncutInv, UpInv, Defaults
  <2>5. QED
    BY <2>3, <2>4
<1>4. CASE CopyFails
  BY <1>4 DEF CopyFails, StartTypes, SeedingInv, UncutInv, UpInv
<1>5. CASE AllCopied
  <2>1. pc = "copying" /\ copying = "none" /\ (\A f \in Files : ~Missing(f))
        /\ UNCHANGED <<disk, vals, values, copying, edits, cut>>
        /\ pc' = (IF DOMAIN values = {} THEN "up" ELSE "applying")
    BY <1>5 DEF AllCopied
  <2>2. disk[Conf] = "image" /\ vals = Defaults
    BY <2>1 DEF StartTypes, SeedingInv
  <2>3. DOMAIN values = {} => Asked = Defaults
    BY DEF Asked, Defaults
  <2>4. Asked' = Asked
    BY <2>1 DEF Asked
  <2>5. QED
    BY <2>1, <2>2, <2>3, <2>4 DEF StartTypes, SeedingInv, UncutInv, UpInv, Defaults
<1>6. CASE Apply
  <2>1. CASE GiveUp
    BY <1>6, <2>1, GiveUpKeeps DEF Apply
  <2>2. CASE pc' = "writing" /\ disk' = [disk EXCEPT ![Conf] = "part"]
    <3>1. disk'[Conf] = "part" /\ \A g \in Files \ {Conf} : disk'[g] = disk[g]
      BY <2>2 DEF StartTypes
    <3>2. StartTypes'
      BY <1>6, <2>2 DEF Apply, StartTypes
    <3>3. SeedingInv' /\ UncutInv' /\ UpInv'
      BY <1>6, <2>2, <3>1 DEF Apply, SeedingInv, UncutInv, UpInv, Defaults
    <3>4. QED
      BY <3>2, <3>3
  <2>3. QED
    BY <1>6, <2>1, <2>2 DEF Apply
<1>7. CASE Written
  <2>1. disk'[Conf] = "image" /\ \A g \in Files \ {Conf} : disk'[g] = disk[g]
    BY <1>7 DEF Written, StartTypes
  <2>2. vals' = Asked
    BY <1>7 DEF Written, SeedingInv, Defaults, Asked
  <2>3. vals' = Asked'
    BY <1>7, <2>2 DEF Written, Asked
  <2>4. StartTypes'
    BY <1>7 DEF Written, StartTypes
  <2>5. SeedingInv' /\ UncutInv' /\ UpInv'
    BY <1>7, <2>1, <2>3 DEF Written, SeedingInv, UncutInv, UpInv
  <2>6. QED
    BY <2>4, <2>5
<1>8. CASE WriteFails
  BY <1>8, GiveUpKeeps DEF WriteFails
<1>9. CASE Kill
  BY <1>9 DEF Kill, StartTypes, SeedingInv, UncutInv, UpInv
<1>10. CASE Stop
  BY <1>10 DEF Stop, StartTypes, SeedingInv, UncutInv, UpInv, Asked
<1>11. CASE Edit
  <2>1. pc = "down" /\ copying = "none" /\ UNCHANGED <<vals, pc, values, copying, cut>>
        /\ edits' = edits + 1
    BY <1>11 DEF Edit, SeedingInv
  <2>2. Asked' = Asked
    BY <2>1 DEF Asked
  <2>3. CASE UNCHANGED disk
    BY <2>1, <2>2, <2>3 DEF StartTypes, SeedingInv, UncutInv, UpInv
  <2>4. ASSUME NEW f \in Files, disk' = [disk EXCEPT ![f] = "own"] PROVE StartInv'
    <3>1. disk'[f] = "own" /\ \A g \in Files \ {f} : disk'[g] = disk[g]
      BY <2>4 DEF StartTypes
    <3>2. StartTypes'
      BY <2>1, <2>4 DEF StartTypes
    <3>3. SeedingInv' /\ UncutInv' /\ UpInv'
      BY <2>1, <2>2, <3>1 DEF SeedingInv, UncutInv, UpInv
    <3>4. QED
      BY <3>2, <3>3
  <2>5. CASE disk' = [disk EXCEPT ![Conf] = "none"]
    <3>1. disk'[Conf] = "none" /\ \A g \in Files \ {Conf} : disk'[g] = disk[g]
      BY <2>5 DEF StartTypes
    <3>2. StartTypes'
      BY <2>1, <2>5 DEF StartTypes
    <3>3. SeedingInv' /\ UncutInv' /\ UpInv'
      BY <2>1, <2>2, <3>1 DEF SeedingInv, UncutInv, UpInv
    <3>4. QED
      BY <3>2, <3>3
  <2>6. QED
    BY <1>11, <2>3, <2>4, <2>5 DEF Edit
<1>12. CASE UNCHANGED startVars
  BY <1>12 DEF startVars, StartTypes, SeedingInv, UncutInv, UpInv, Asked, Defaults
<1>13. QED
  BY <1>1, <1>2, <1>3, <1>4, <1>5, <1>6, <1>7, <1>8, <1>9, <1>10, <1>11, <1>12
     DEF StartNext

LEMMA StartInvAlways == StartSpec => []StartInv
<1>1. QED
  BY StartInitInv, StartStep, PTL DEF StartSpec

LEMMA InvAsAsked == StartInv => RunsAsAsked
BY ConfIsAFile DEF StartInv, StartTypes, SeedingInv, UncutInv, UpInv, RunsAsAsked, Missing

\* weewxd runs on the operator's configuration, or on a whole copy of the image
\* with the values it was seeded from, if no seeding start was cut short.
THEOREM RunsOnWhatWasAsked == StartSpec => []RunsAsAsked
<1>1. QED
  BY StartInvAlways, InvAsAsked, PTL

LEMMA StepKeepsOwn ==
  ASSUME StartInv, [StartNext]_startVars, edits' = edits, NEW f \in Files, disk[f] = "own"
  PROVE disk'[f] = "own"
<1> USE ConfIsAFile DEF StartInv, StartTypes, SeedingInv
<1>1. CASE \E g \in Files : CopyFile(g)
  BY <1>1 DEF CopyFile, Missing
<1>2. CASE FileCopied
  BY <1>2 DEF FileCopied
<1>3. CASE Apply \/ WriteFails \/ Written
  BY <1>3 DEF Apply, WriteFails, Written, GiveUp, Seeding
<1>4. CASE StartContainer \/ CopyFails \/ AllCopied \/ Kill \/ Stop \/ UNCHANGED startVars
  BY <1>4 DEF StartContainer, CopyFails, AllCopied, Kill, Stop, startVars
<1>5. CASE Edit
  <2>1. edits' = edits + 1
    BY <1>5 DEF Edit
  <2>2. QED
    BY <2>1
<1>6. QED
  BY <1>1, <1>2, <1>3, <1>4, <1>5 DEF StartNext

\* A start changes no file that the operator put there.
THEOREM StartKeepsOwnFiles == StartSpec => OwnFilesKept
<1>1. StartInv /\ [StartNext]_startVars
      => [edits' = edits => \A f \in Files : disk[f] = "own" => disk'[f] = "own"]_startVars
  BY StepKeepsOwn
<1>2. QED
  BY <1>1, StartInvAlways, PTL DEF StartSpec, OwnFilesKept

------------------------------------------------------------------------------
(***************************************************************************)
(* Receiver campaign: the lock serialises the programs, and between two    *)
(* pieces of work the record, weewx.conf and the container agree.  A       *)
(* program's list is one of a few; what is known of the files is said at   *)
(* each step of each list.                                                 *)
(***************************************************************************)

\* What a program may have still to do.  To begin with, or at the end:
Break1 == <<"break">>
Retake1 == <<"retake">>
Pid1 == <<"pid">>
Check1 == <<"check">>
Release1 == <<"release">>
\* trip_abort, and the same without a lock to release:
Trip1 == <<"stop", "copy", "restart", "release">>
Trip2 == <<"copy", "restart", "release">>
Trip3 == <<"restart", "release">>
Bare1 == <<"stop", "copy", "restart">>
Bare2 == <<"copy", "restart">>
Bare3 == <<"restart">>
\* A swap to an arm, to the baseline, and one whose write failed:
Arm1 == <<"write", "restart", "health", "record", "release">>
Arm2 == <<"restart", "health", "record", "release">>
Arm3 == <<"health", "record", "release">>
Record1 == <<"record", "release">>
Base1 == <<"copy", "restart", "record", "release">>
Base2 == <<"restart", "record", "release">>
Fail1 == <<"copy", "restart", "stop", "copy", "restart", "release">>
Fail2 == <<"restart", "stop", "copy", "restart", "release">>

Waiting == {<<>>, Break1, Retake1, Pid1}
Locked == {Release1, Trip1, Trip2, Trip3}
Bare == {Bare1, Bare2, Bare3}
Swapping == {Arm1, Arm2, Arm3, Record1, Base1, Base2, Fail1, Fail2}

Passes == Waiting \cup {Check1, Release1, Trip1, Trip2, Trip3}
Plans == [tick |-> Passes \cup {Arm1, Arm2, Arm3, Record1, Base1, Base2, Fail1, Fail2},
          guard |-> Passes,
          abort |-> (Passes \ {Check1}) \cup {Bare1, Bare2, Bare3}]

AllPlans == Passes \cup {Arm1, Arm2, Arm3, Record1, Base1, Base2, Fail1, Fail2}
              \cup {Bare1, Bare2, Bare3}

\* What they may be before the installation.
Uninstalled == Waiting \cup {Check1, Release1, Trip1, Trip2, Bare1, Bare2}

PlansInv ==
  /\ DOMAIN todo = Programs
  /\ \A p \in Programs : todo[p] \in Plans[p]

\* A program holds the lock from mkdir to the end of its work.
Holds(p) == ~Idle(p) /\ todo[p] \notin {Break1, Retake1}

\* Unless it was raced, the lock says who holds it, and one program does.
LockInv ==
  ~raced => \A p \in Programs : Holds(p) =>
              /\ lock = IF todo[p] = Pid1 THEN "nopid" ELSE p
              /\ \A q \in Programs : Holds(q) => q = p

\* Before the installation nothing leads away from production.
UninstalledInv ==
  ~installed =>
    /\ state = NONE /\ conf = BASELINE /\ live = BASELINE
    /\ \A p \in Programs :
         todo[p] \in Waiting \cup {Check1, Release1, Trip1, Trip2, Bare1, Bare2}

\* A reading needs a window closed since the last one.  The first since an arm was recorded
\* may reach back over the swap; if the open window still does, so may the next, and none
\* after that.
Settling ==
  /\ lines \in 0 .. SettleSamples
  /\ lines = 1 => window = "same" \/ period = "none"
  /\ lines = SettleSamples => window = "same" /\ period # "mixed"

\* Between two pieces of work the files and the container agree.
Agrees ==
  /\ stop \/ state = NONE => conf = BASELINE /\ live = BASELINE
  /\ ~stop /\ state # NONE => conf = state /\ live = state /\ ~foreign /\ Settling

\* What is known of them before each step of a piece of work.
Known(plan) ==
  /\ plan \in {Check1, Release1} => Agrees
  /\ plan \in {Trip2, Bare2, Trip3, Bare3} => stop
  /\ plan \in {Trip3, Bare3} => conf = BASELINE
  /\ plan \in {Arm1, Arm2, Arm3, Record1, Base1, Base2} => ~stop /\ target # NONE
  /\ plan \in {Base1, Base2} => target = BASELINE
  /\ plan = Base2 => conf = BASELINE
  /\ plan \in {Arm2, Arm3, Record1} => conf = target
  /\ plan = Arm3 => live \in {target, NONE}
  /\ plan = Record1 => live = target

AtWorkInv ==
  ~raced /\ ~disturbed =>
    /\ Quiet => Agrees
    /\ \A p \in Programs : AtWork(p) => Known(todo[p])

CampaignInv == PlansInv /\ LockInv /\ UninstalledInv /\ AtWorkInv

\* The step each plan begins with.
LEMMA FirstStep ==
  ASSUME NEW plan \in AllPlans, plan # <<>>
  PROVE  /\ plan[1] = "break" => plan = Break1
         /\ plan[1] = "retake" => plan = Retake1
         /\ plan[1] = "pid" => plan = Pid1
         /\ plan[1] = "check" => plan = Check1
         /\ plan[1] = "release" => plan = Release1
         /\ plan[1] = "stop" => plan \in {Trip1, Bare1}
         /\ plan[1] = "copy" => plan \in {Trip2, Bare2, Base1, Fail1}
         /\ plan[1] = "restart" => plan \in {Trip3, Bare3, Arm2, Base2, Fail2}
         /\ plan[1] = "write" => plan = Arm1
         /\ plan[1] = "health" => plan = Arm3
         /\ plan[1] = "record" => plan = Record1
  BY DEF AllPlans, Passes, Waiting, Break1, Retake1, Pid1, Check1, Release1, Trip1, Trip2, Trip3,
         Bare1, Bare2, Bare3, Arm1, Arm2, Arm3, Record1, Base1, Base2, Fail1, Fail2

\* What is left of a plan after its first step, and after a failed copy.
LEMMA NextStep ==
  /\ Tail(Release1) = <<>>
  /\ Tail(Trip1) = Trip2 /\ Tail(Trip2) = Trip3 /\ Tail(Trip3) = Release1
  /\ Tail(Bare1) = Bare2 /\ Tail(Bare2) = Bare3 /\ Tail(Bare3) = <<>>
  /\ Tail(Arm1) = Arm2 /\ Tail(Arm2) = Arm3 /\ Tail(Arm3) = Record1 /\ Tail(Record1) = Release1
  /\ Tail(Base1) = Base2 /\ Tail(Base2) = Record1
  /\ Tail(Fail1) = Fail2 /\ Tail(Fail2) = Trip1
  BY DEF Release1, Trip1, Trip2, Trip3, Bare1, Bare2, Bare3,
         Arm1, Arm2, Arm3, Record1, Base1, Base2, Fail1, Fail2

\* What the actions put on a program's list.
LEMMA NewPlans ==
  /\ TripUnlocked = Bare1 /\ TripAbort = Trip1 /\ WriteFailed = Fail1
  /\ \A arm : Swap(arm) = IF arm = BASELINE THEN Base1 ELSE Arm1
  BY DEF TripUnlocked, TripAbort, WriteFailed, Swap, Trip1, Bare1, Fail1, Base1, Arm1

\* No two plans have the same length and the same first step.
LEMMA PlansDiffer ==
  /\ Len(Break1) = 1 /\ Break1[1] = "break"
  /\ Len(Retake1) = 1 /\ Retake1[1] = "retake"
  /\ Len(Pid1) = 1 /\ Pid1[1] = "pid"
  /\ Len(Check1) = 1 /\ Check1[1] = "check"
  /\ Len(Release1) = 1 /\ Release1[1] = "release"
  /\ Len(Trip1) = 4 /\ Trip1[1] = "stop"
  /\ Len(Trip2) = 3 /\ Trip2[1] = "copy"
  /\ Len(Trip3) = 2 /\ Trip3[1] = "restart"
  /\ Len(Bare1) = 3 /\ Bare1[1] = "stop"
  /\ Len(Bare2) = 2 /\ Bare2[1] = "copy"
  /\ Len(Bare3) = 1 /\ Bare3[1] = "restart"
  /\ Len(Arm1) = 5 /\ Arm1[1] = "write"
  /\ Len(Arm2) = 4 /\ Arm2[1] = "restart"
  /\ Len(Arm3) = 3 /\ Arm3[1] = "health"
  /\ Len(Record1) = 2 /\ Record1[1] = "record"
  /\ Len(Base1) = 4 /\ Base1[1] = "copy"
  /\ Len(Base2) = 3 /\ Base2[1] = "restart"
  /\ Len(Fail1) = 6 /\ Fail1[1] = "copy"
  /\ Len(Fail2) = 5 /\ Fail2[1] = "restart"
  /\ Len(<<>>) = 0
  BY DEF Break1, Retake1, Pid1, Check1, Release1, Trip1, Trip2, Trip3, Bare1, Bare2, Bare3,
         Arm1, Arm2, Arm3, Record1, Base1, Base2, Fail1, Fail2

\* Every program's list is one of them.
LEMMA PlansOf ==
  /\ Programs = {"tick", "guard", "abort"}
  /\ \A p \in Programs : Plans[p] \subseteq AllPlans
  BY DEF Plans, AllPlans, Programs

\* At work is who does not wait for the lock.
LEMMA WorkPlans ==
  ASSUME NEW plan \in AllPlans
  PROVE  /\ plan # <<>> /\ plan[1] \notin {"break", "retake", "pid"} <=> plan \notin Waiting
<1>1. plan \in Waiting => plan = <<>> \/ plan[1] \in {"break", "retake", "pid"}
  BY DEF Waiting, Break1, Retake1, Pid1
<1>2. plan # <<>> /\ plan[1] \in {"break", "retake", "pid"} => plan \in Waiting
  BY FirstStep DEF Waiting
<1> QED
  BY <1>1, <1>2 DEF Waiting

LEMMA AtWorkIs ==
  ASSUME PlansInv, NEW p \in Programs
  PROVE  AtWork(p) <=> todo[p] \notin Waiting
<1>1. todo[p] \in AllPlans
  BY PlansOf DEF PlansInv
<1> QED
  BY <1>1, WorkPlans DEF AtWork, Idle

LEMMA AtWorkNext ==
  ASSUME PlansInv', NEW p \in Programs
  PROVE  AtWork(p)' <=> todo'[p] \notin Waiting
<1>1. todo'[p] \in AllPlans
  BY PlansOf DEF PlansInv
<1> QED
  BY <1>1, WorkPlans DEF AtWork, Idle

\* A step that is taken is the first of a list.
LEMMA PlanOfStep ==
  ASSUME PlansInv, NEW p \in Programs, NEW step, At(p, step)
  PROVE  todo[p] \in AllPlans /\ todo[p] \in Plans[p] /\ todo[p] # <<>> /\ todo[p][1] = step
  BY PlansOf DEF PlansInv, At, Idle

\* Continue changes one program's list.
LEMMA ContinueIs ==
  ASSUME PlansInv, NEW p \in Programs, NEW plan \in Plans[p], Continue(p, plan)
  PROVE  /\ PlansInv' /\ todo'[p] = plan
         /\ \A q \in Programs \ {p} : todo'[q] = todo[q]
  BY DEF PlansInv, Continue

\* A step within a piece of work.
LEMMA WorkStep ==
  ASSUME PlansInv, LockInv, NEW p \in Programs, todo[p] \notin Waiting,
         NEW plan \in Plans[p], plan \notin Waiting, Continue(p, plan),
         lock' = lock, raced' = raced, ~raced /\ ~disturbed' => Known(todo[p])'
  PROVE  PlansInv' /\ LockInv' /\ AtWorkInv'
<1>1. /\ PlansInv' /\ todo'[p] = plan
      /\ \A q \in Programs \ {p} : todo'[q] = todo[q]
  BY ContinueIs
<1>2. \A q \in Programs : /\ AtWork(q) <=> todo[q] \notin Waiting
                          /\ Holds(q) <=> todo[q] \notin {<<>>, Break1, Retake1}
  BY AtWorkIs DEF Holds, Idle
<1>3. \A q \in Programs : /\ AtWork(q)' <=> todo'[q] \notin Waiting
                          /\ Holds(q)' <=> todo'[q] \notin {<<>>, Break1, Retake1}
  BY <1>1, AtWorkNext DEF Holds, Idle
<1>4. \A q \in Programs : Holds(q)' <=> Holds(q)
  BY <1>1, <1>2, <1>3 DEF Waiting
<1>5. LockInv'
  BY <1>1, <1>2, <1>4 DEF LockInv, Waiting
<1>6. AtWorkInv'
  <2> SUFFICES ASSUME ~raced, ~disturbed'
               PROVE  /\ Quiet' => Agrees'
                      /\ \A q \in Programs : AtWork(q)' => Known(todo[q])'
    BY DEF AtWorkInv
  <2>1. AtWork(p)'
    BY <1>1, <1>3
  <2>2. \A q \in Programs : AtWork(q)' => q = p
    BY <1>1, <1>2, <1>3 DEF LockInv, Waiting
  <2>3. Known(todo[p])'
    OBVIOUS
  <2> QED
    BY <2>1, <2>2, <2>3 DEF Quiet
<1> QED
  BY <1>1, <1>5, <1>6

\* Whose plans they are.
LEMMA WhosePlans ==
  ASSUME NEW p \in Programs
  PROVE  /\ Waiting \cup Locked \subseteq Plans[p]
         /\ p # "abort" => Check1 \in Plans[p]
         /\ p = "tick" => Swapping \subseteq Plans[p]
         /\ p = "abort" => Bare \subseteq Plans[p]
<1>1. CASE p = "tick"
  BY <1>1 DEF Plans, Passes, Locked, Bare, Swapping, Waiting
<1>2. CASE p = "guard"
  BY <1>2 DEF Plans, Passes, Locked, Bare, Swapping, Waiting
<1>3. CASE p = "abort"
  <2>1. Check1 \notin Waiting \cup Locked
    BY PlansDiffer DEF Waiting, Locked
  <2> QED
    BY <1>3, <2>1 DEF Plans, Passes, Locked, Bare, Waiting
<1> QED
  BY <1>1, <1>2, <1>3 DEF Programs

LEMMA SwapPlans ==
  ASSUME NEW p \in Programs, NEW plan \in Plans[p]
  PROVE  /\ plan \in Swapping => p = "tick"
         /\ plan \in Bare => p = "abort"
<1>1. Swapping \cap (Passes \cup Bare) = {}
  BY PlansDiffer DEF Swapping, Passes, Bare, Waiting
<1>2. Bare \cap (Passes \cup Swapping) = {}
  BY PlansDiffer DEF Swapping, Passes, Bare, Waiting
<1>3. CASE p = "tick"
  BY <1>3, <1>1, <1>2 DEF Plans, Swapping
<1>4. CASE p = "guard"
  BY <1>4, <1>1, <1>2 DEF Plans, Swapping
<1>5. CASE p = "abort"
  BY <1>5, <1>1, <1>2 DEF Plans, Bare
<1> QED
  BY <1>3, <1>4, <1>5 DEF Programs

LEMMA PlanKinds ==
  /\ \A plan \in Locked \cup Bare \cup Swapping : plan \notin Waiting /\ plan # Check1
  /\ Check1 \notin Waiting
<1>1. Check1 \notin Waiting
  BY PlansDiffer DEF Waiting
<1>2. ASSUME NEW plan \in Locked \cup Bare \cup Swapping
      PROVE  plan \notin Waiting /\ plan # Check1
  <2>1. CASE plan \in Locked
    BY <2>1, PlansDiffer DEF Waiting, Locked
  <2>2. CASE plan \in Bare
    BY <2>2, PlansDiffer DEF Waiting, Bare
  <2>3. CASE plan \in Swapping
    <3>1. Len(plan) \in {2, 3, 4, 5, 6}
      BY <2>3, PlansDiffer DEF Swapping
    <3>2. \A waiting \in Waiting \cup {Check1} : Len(waiting) \in {0, 1}
      BY PlansDiffer DEF Waiting
    <3> QED
      BY <3>1, <3>2
  <2> QED
    BY <1>2, <2>1, <2>2, <2>3
<1> QED
  BY <1>1, <1>2

\* The end of a piece of work.
LEMMA WorkEnds ==
  ASSUME PlansInv, LockInv, NEW p \in Programs, todo[p] \notin Waiting, Continue(p, <<>>),
         raced' = raced, ~raced /\ ~disturbed' => Agrees'
  PROVE  PlansInv' /\ LockInv' /\ AtWorkInv'
<1>1. /\ PlansInv' /\ todo'[p] = <<>>
      /\ \A q \in Programs \ {p} : todo'[q] = todo[q]
  BY ContinueIs, WhosePlans DEF Waiting
<1>2. \A q \in Programs : /\ AtWork(q) <=> todo[q] \notin Waiting
                          /\ Holds(q) <=> todo[q] \notin {<<>>, Break1, Retake1}
  BY AtWorkIs DEF Holds, Idle
<1>3. \A q \in Programs : /\ AtWork(q)' <=> todo'[q] \notin Waiting
                          /\ Holds(q)' <=> todo'[q] \notin {<<>>, Break1, Retake1}
  BY <1>1, AtWorkNext DEF Holds, Idle
<1>4. ~raced => \A q \in Programs : ~Holds(q)' /\ ~AtWork(q)'
  BY <1>1, <1>2, <1>3 DEF LockInv, Waiting
<1>5. LockInv'
  BY <1>4 DEF LockInv
<1>6. AtWorkInv'
  BY <1>4 DEF AtWorkInv, Quiet
<1> QED
  BY <1>1, <1>5, <1>6

\* A step before a piece of work, with or without the lock.
LEMMA WaitStep ==
  ASSUME PlansInv, LockInv, AtWorkInv, NEW p \in Programs, todo[p] \in Waiting \ {Pid1},
         NEW plan \in Waiting, Continue(p, plan),
         UNCHANGED <<target, installed, conf, live, state, stop, origin, disturbed>>,
         raced => raced',
         \/ plan # Pid1 /\ (lock' = lock \/ (~raced' => lock \in {"dead", "free"}))
         \/ plan = Pid1 /\ lock = "free" /\ lock' = "nopid"
  PROVE  PlansInv' /\ LockInv' /\ AtWorkInv'
<1>1. /\ PlansInv' /\ todo'[p] = plan
      /\ \A q \in Programs \ {p} : todo'[q] = todo[q]
  BY ContinueIs, WhosePlans
<1>2. \A q \in Programs : /\ AtWork(q) <=> todo[q] \notin Waiting
                          /\ Holds(q) <=> todo[q] \notin {<<>>, Break1, Retake1}
  BY AtWorkIs DEF Holds, Idle
<1>3. \A q \in Programs : /\ AtWork(q)' <=> todo'[q] \notin Waiting
                          /\ Holds(q)' <=> todo'[q] \notin {<<>>, Break1, Retake1}
  BY <1>1, AtWorkNext DEF Holds, Idle
<1>4. ~raced /\ lock \in {"dead", "free"} => \A q \in Programs : ~Holds(q)
  BY DEF LockInv, Programs
<1>5. \A q \in Programs \ {p} : Holds(q)' <=> Holds(q)
  BY <1>1, <1>2, <1>3
<1>6. ~Holds(p) /\ (Holds(p)' <=> plan = Pid1)
  BY <1>1, <1>2, <1>3, PlansDiffer DEF Waiting
<1>7. LockInv'
  <2>1. CASE lock' = lock /\ plan # Pid1
    BY <1>1, <1>5, <1>6, <2>1 DEF LockInv
  <2>2. CASE ~raced' => lock \in {"dead", "free"}
    BY <1>1, <1>4, <1>5, <1>6, <2>2 DEF LockInv
  <2> QED
    BY <2>1, <2>2
<1>8. \A q \in Programs : AtWork(q)' <=> AtWork(q)
  BY <1>1, <1>2, <1>3
<1>9. \A q \in Programs : AtWork(q) => todo'[q] = todo[q]
  BY <1>1, <1>2
<1>10. AtWorkInv'
  <2> SUFFICES ASSUME ~raced', ~disturbed'
               PROVE  /\ Quiet' => Agrees'
                      /\ \A q \in Programs : AtWork(q)' => Known(todo[q])'
    BY DEF AtWorkInv
  <2>1. /\ Quiet => Agrees
        /\ \A q \in Programs : AtWork(q) => Known(todo[q])
    BY DEF AtWorkInv
  <2>2. Agrees' <=> Agrees
    BY DEF Agrees, Settling, origin
  <2>3. \A q \in Programs : todo'[q] = todo[q] /\ Known(todo[q]) => Known(todo[q])'
    BY <2>2 DEF Known
  <2> QED
    BY <1>8, <1>9, <2>1, <2>2, <2>3 DEF Quiet
<1> QED
  BY <1>1, <1>7, <1>10

\* A health check is the work of the one at work.
LEMMA WorkingStation ==
  ASSUME PlansInv, LockInv, ~raced,
         Quiet \/ \E q \in Programs : AtWork(q) /\ todo[q] \in {Check1, Release1}
  PROVE  Station = live
<1>1. "tick" \in Programs
  BY DEF Programs
<1> SUFFICES ASSUME At("tick", "health")
             PROVE  FALSE
  BY DEF Station
<1>2. AtWork("tick")
  BY DEF At, AtWork
<1>3. todo["tick"] = Arm3
  BY <1>1, PlanOfStep, FirstStep
<1>4. PICK q \in Programs : AtWork(q) /\ todo[q] \in {Check1, Release1}
  BY <1>1, <1>2 DEF Quiet
<1>5. Holds(q) /\ Holds("tick")
  BY <1>1, <1>2, <1>4, AtWorkIs DEF Holds, Idle, Waiting
<1>6. q = "tick"
  BY <1>1, <1>5 DEF LockInv
<1> QED
  BY <1>3, <1>4, <1>6, PlansDiffer

\* A step that no program takes.
LEMMA OutsideStep ==
  ASSUME PlansInv, LockInv, AtWorkInv,
         UNCHANGED <<todo, target, lock, conf, live, state, stop, raced>>,
         ~disturbed' => ~disturbed,
         Agrees /\ Station = live => Agrees'
  PROVE  PlansInv' /\ LockInv' /\ AtWorkInv'
<1>1. PlansInv' /\ LockInv'
  BY DEF PlansInv, LockInv, Holds, Idle
<1>2. AtWorkInv'
  <2> SUFFICES ASSUME ~raced', ~disturbed'
               PROVE  /\ Quiet' => Agrees'
                      /\ \A q \in Programs : AtWork(q)' => Known(todo[q])'
    BY DEF AtWorkInv
  <2>1. /\ Quiet => Agrees
        /\ \A q \in Programs : AtWork(q) => Known(todo[q])
    BY DEF AtWorkInv
  <2>2. Quiet => Station = live
    BY WorkingStation
  <2>3. ASSUME NEW q \in Programs, AtWork(q), Known(todo[q])
        PROVE  Known(todo[q])'
    <3>1. CASE todo[q] \in {Check1, Release1}
      <4>1. Station = live
        BY <2>3, <3>1, WorkingStation
      <4>2. Agrees'
        BY <2>3, <3>1, <4>1 DEF Known
      <4> QED
        BY <2>3, <3>1, <4>2 DEF Known
    <3>2. CASE todo[q] \notin {Check1, Release1}
      BY <2>3, <3>2 DEF Known
    <3> QED
      BY <3>1, <3>2
  <2>4. \A q \in Programs : AtWork(q)' <=> AtWork(q)
    BY DEF AtWork, Idle
  <2> QED
    BY <2>1, <2>2, <2>3, <2>4 DEF Quiet
<1> QED
  BY <1>1, <1>2

\* A step of a program, before the installation.
LEMMA UninstalledStep ==
  ASSUME PlansInv, UninstalledInv, NEW p \in Programs, NEW plan \in Plans[p], Continue(p, plan),
         installed' = installed,
         ~installed => UNCHANGED <<state, conf, live>> /\ plan \in Uninstalled
  PROVE  UninstalledInv'
<1>1. /\ todo'[p] = plan
      /\ \A q \in Programs \ {p} : todo'[q] = todo[q]
  BY ContinueIs
<1> QED
  BY <1>1 DEF UninstalledInv, Uninstalled

LEMMA MkdirStep ==
  ASSUME CampaignInv, NEW p \in Programs, Start(p)
  PROVE  CampaignInv'
<1>1. PlansInv /\ LockInv /\ AtWorkInv
  BY DEF CampaignInv
<1>2. todo[p] = <<>>
  BY DEF Start, Mkdir, FindStale, Idle
<1>3. todo[p] \in Waiting \ {Pid1}
  BY <1>2, PlansDiffer DEF Waiting
<1>4. PICK plan \in {Pid1, Break1} :
         /\ Continue(p, plan)
         /\ \/ plan # Pid1 /\ lock' = lock
            \/ plan = Pid1 /\ lock = "free" /\ lock' = "nopid"
  BY PlansDiffer DEF Start, Mkdir, FindStale, Pid1, Break1
<1>5. plan \in Waiting /\ plan \in Plans[p] /\ plan \in Uninstalled
  BY WhosePlans DEF Waiting, Uninstalled
<1>6. UNCHANGED <<target, installed, conf, live, state, stop, origin, disturbed>> /\ raced' = raced
  BY DEF Start, files, sentinels, log, history
<1>7. PlansInv' /\ LockInv' /\ AtWorkInv'
  BY <1>1, <1>3, <1>4, <1>5, <1>6, WaitStep
<1>8. UninstalledInv'
  BY <1>4, <1>5, <1>6, UninstalledStep DEF CampaignInv
<1> QED
  BY <1>7, <1>8 DEF CampaignInv

LEMMA AbortUnlockedStep ==
  ASSUME CampaignInv, AbortUnlocked
  PROVE  CampaignInv'
<1>1. "abort" \in Programs /\ Continue("abort", Bare1)
  BY NewPlans DEF AbortUnlocked, Programs
<1>2. Bare1 \in Plans["abort"] /\ Bare1 \in Uninstalled
  BY <1>1, WhosePlans DEF Bare, Uninstalled
<1>3. PlansInv'
  BY <1>1, <1>2, ContinueIs DEF CampaignInv
<1>4. UninstalledInv'
  BY <1>1, <1>2, UninstalledStep DEF CampaignInv, AbortUnlocked, files
<1> QED
  BY <1>3, <1>4 DEF CampaignInv, AbortUnlocked, LockInv, AtWorkInv

LEMMA BreakStep ==
  ASSUME CampaignInv, NEW p \in Programs, Break(p)
  PROVE  CampaignInv'
<1>1. PlansInv /\ LockInv /\ AtWorkInv
  BY DEF CampaignInv
<1>2. todo[p] = Break1
  BY PlanOfStep, FirstStep DEF Break, CampaignInv
<1>3. todo[p] \in Waiting \ {Pid1}
  BY <1>2, PlansDiffer DEF Waiting
<1>4. Continue(p, Retake1)
  BY DEF Break, Retake1
<1>5. Retake1 \in Waiting /\ Retake1 \in Plans[p] /\ Retake1 \in Uninstalled /\ Retake1 # Pid1
  BY WhosePlans, PlansDiffer DEF Waiting, Uninstalled
<1>6. UNCHANGED <<target, installed, conf, live, state, stop, origin, disturbed>>
  BY DEF Break, files, sentinels, log
<1>7. raced' = (raced \/ lock \notin {"dead", "free"})
  BY DEF Break
<1>8. PlansInv' /\ LockInv' /\ AtWorkInv'
  BY <1>1, <1>3, <1>4, <1>5, <1>6, <1>7, WaitStep
<1>9. UninstalledInv'
  BY <1>4, <1>5, <1>6, UninstalledStep DEF CampaignInv
<1> QED
  BY <1>8, <1>9 DEF CampaignInv

LEMMA RetakeStep ==
  ASSUME CampaignInv, NEW p \in Programs, Retake(p)
  PROVE  CampaignInv'
<1>1. PlansInv /\ LockInv /\ AtWorkInv
  BY DEF CampaignInv
<1>2. todo[p] = Retake1
  BY PlanOfStep, FirstStep DEF Retake, CampaignInv
<1>3. todo[p] \in Waiting \ {Pid1}
  BY <1>2, PlansDiffer DEF Waiting
<1>4. PICK plan \in {Pid1, <<>>} :
         /\ Continue(p, plan)
         /\ \/ plan # Pid1 /\ lock' = lock
            \/ plan = Pid1 /\ lock = "free" /\ lock' = "nopid"
  BY PlansDiffer DEF Retake, Pid1
<1>5. plan \in Waiting /\ plan \in Plans[p] /\ plan \in Uninstalled
  BY WhosePlans DEF Waiting, Uninstalled
<1>6. UNCHANGED <<target, installed, conf, live, state, stop, origin, disturbed>> /\ raced' = raced
  BY DEF Retake, files, sentinels, log, history
<1>7. PlansInv' /\ LockInv' /\ AtWorkInv'
  BY <1>1, <1>3, <1>4, <1>5, <1>6, WaitStep
<1>8. UninstalledInv'
  BY <1>4, <1>5, <1>6, UninstalledStep DEF CampaignInv
<1> QED
  BY <1>7, <1>8 DEF CampaignInv

\* The work begins: nobody else is at it, and so the files agree.
LEMMA PidStep ==
  ASSUME CampaignInv, NEW p \in Programs, WritePid(p)
  PROVE  CampaignInv'
<1>1. todo[p] = Pid1
  BY PlanOfStep, FirstStep DEF WritePid, CampaignInv
<1>2. PICK plan \in {Check1, Trip1} : plan \in Plans[p] /\ Continue(p, plan)
  BY NewPlans, WhosePlans DEF WritePid, Body, Check1, Locked
<1>3. plan \notin Waiting /\ plan \in Uninstalled /\ plan # Pid1
  BY PlanKinds DEF Uninstalled, Locked, Waiting
<1>4. /\ PlansInv' /\ todo'[p] = plan
      /\ \A q \in Programs \ {p} : todo'[q] = todo[q]
  BY <1>2, ContinueIs DEF CampaignInv
<1>5. UNCHANGED <<target, installed, conf, live, state, stop, origin, disturbed>> /\ raced' = raced
  BY DEF WritePid, files, sentinels, log, history
<1>6. UninstalledInv'
  BY <1>2, <1>3, <1>5, UninstalledStep DEF CampaignInv
<1>7. \A q \in Programs : /\ AtWork(q) <=> todo[q] \notin Waiting
                          /\ Holds(q) <=> todo[q] \notin {<<>>, Break1, Retake1}
  BY AtWorkIs DEF Holds, Idle, CampaignInv
<1>8. \A q \in Programs : /\ AtWork(q)' <=> todo'[q] \notin Waiting
                          /\ Holds(q)' <=> todo'[q] \notin {<<>>, Break1, Retake1}
  BY <1>4, AtWorkNext DEF Holds, Idle
<1>9. Holds(p)
  BY <1>1, <1>7, PlansDiffer
<1>10. ~raced => /\ lock = "nopid" /\ lock' = p
                 /\ \A q \in Programs \ {p} : todo[q] \in {<<>>, Break1, Retake1}
  BY <1>1, <1>7, <1>9 DEF CampaignInv, LockInv, WritePid
<1>11. LockInv'
  BY <1>3, <1>4, <1>5, <1>8, <1>10 DEF LockInv
<1>12. AtWorkInv'
  <2> SUFFICES ASSUME ~raced, ~disturbed
               PROVE  /\ Quiet' => Agrees'
                      /\ \A q \in Programs : AtWork(q)' => Known(todo[q])'
    BY <1>5 DEF AtWorkInv
  <2>1. \A q \in Programs \ {p} : ~AtWork(q) /\ ~AtWork(q)'
    BY <1>4, <1>7, <1>8, <1>10 DEF Waiting
  <2>2. ~AtWork(p) /\ AtWork(p)'
    BY <1>1, <1>3, <1>4, <1>7, <1>8 DEF Waiting
  <2>3. Agrees
    BY <2>1, <2>2 DEF Quiet, CampaignInv, AtWorkInv
  <2>4. Agrees'
    BY <2>3, <1>5 DEF Agrees, Settling, origin
  <2>5. Known(todo[p])'
    BY <2>4, <1>4, PlansDiffer DEF Known
  <2> QED
    BY <2>1, <2>4, <2>5
<1> QED
  BY <1>4, <1>6, <1>11, <1>12 DEF CampaignInv

\* What is known at a piece of work is what its next step needs, and leaves.
LEMMA WorkGoesOn ==
  ASSUME CampaignInv, NEW p \in Programs, todo[p] \in Locked \cup Bare \cup Swapping \cup {Check1},
         NEW plan \in Plans[p], plan \notin Waiting, Continue(p, plan),
         lock' = lock, raced' = raced, installed' = installed,
         ~installed => UNCHANGED <<state, conf, live>> /\ plan \in Uninstalled,
         disturbed => disturbed',
         /\ ~disturbed' /\ Known(todo[p]) /\ todo'[p] = plan /\ UninstalledInv
         => Known(todo[p])'
  PROVE  CampaignInv'
<1>1. todo[p] \notin Waiting
  BY PlanKinds
<1>2. todo'[p] = plan
  BY ContinueIs DEF CampaignInv
<1>3. ~raced /\ ~disturbed' => Known(todo[p])'
  BY <1>1, <1>2, AtWorkIs DEF CampaignInv, AtWorkInv
<1>4. PlansInv /\ LockInv
  BY DEF CampaignInv
<1>5. PlansInv' /\ LockInv' /\ AtWorkInv'
  BY <1>1, <1>3, <1>4, WorkStep
<1>6. UninstalledInv'
  BY UninstalledStep DEF CampaignInv
<1> QED
  BY <1>5, <1>6 DEF CampaignInv

\* And what is left by the last step is an agreement.
LEMMA WorkIsOver ==
  ASSUME CampaignInv, NEW p \in Programs, todo[p] \in {Release1, Bare2, Bare3}, Continue(p, <<>>),
         raced' = raced, installed' = installed,
         ~installed => UNCHANGED <<state, conf, live>>,
         disturbed => disturbed',
         ~disturbed' /\ Known(todo[p]) /\ UninstalledInv => Agrees'
  PROVE  CampaignInv'
<1>1. todo[p] \notin Waiting
  BY PlanKinds DEF Locked, Bare
<1>2. <<>> \in Plans[p] /\ <<>> \in Uninstalled
  BY WhosePlans DEF Waiting, Uninstalled
<1>3. ~raced /\ ~disturbed' => Agrees'
  BY <1>1, AtWorkIs DEF CampaignInv, AtWorkInv
<1>4. PlansInv /\ LockInv
  BY DEF CampaignInv
<1>5. PlansInv' /\ LockInv' /\ AtWorkInv'
  BY <1>1, <1>3, <1>4, WorkEnds
<1>6. UninstalledInv'
  BY <1>2, UninstalledStep DEF CampaignInv
<1> QED
  BY <1>5, <1>6 DEF CampaignInv

LEMMA ReleaseStep ==
  ASSUME CampaignInv, NEW p \in Programs, Release(p)
  PROVE  CampaignInv'
<1>1. todo[p] = Release1
  BY PlanOfStep, FirstStep DEF Release, CampaignInv
<1>2. Continue(p, <<>>)
  BY <1>1, NextStep DEF Release, Done
<1>3. UNCHANGED <<installed, conf, live, state, stop, origin, raced, disturbed>>
  BY DEF Release, files, sentinels, log, history
<1>4. Known(todo[p]) => Agrees'
  BY <1>1, <1>3 DEF Known, Agrees, Settling, origin
<1> QED
  BY <1>1, <1>2, <1>3, <1>4, WorkIsOver

LEMMA StopStep ==
  ASSUME CampaignInv, NEW p \in Programs, TripStop(p)
  PROVE  CampaignInv'
<1>1. todo[p] \in {Trip1, Bare1} /\ todo[p] \in Plans[p]
  BY PlanOfStep, FirstStep DEF TripStop, CampaignInv
<1>2. Continue(p, Trip2) \/ (Continue(p, Bare2) /\ todo[p] = Bare1)
  BY <1>1, NextStep DEF TripStop, Done
<1>3. Trip2 # Bare2
  BY DEF Trip2, Bare2
<1>4. PICK plan \in {Trip2, Bare2} : Continue(p, plan) /\ (plan = Bare2 => todo[p] = Bare1)
  <2>1. CASE Continue(p, Trip2)
    BY <1>3, <2>1
  <2>2. CASE Continue(p, Bare2) /\ todo[p] = Bare1
    BY <2>2
  <2> QED
    BY <1>2, <2>1, <2>2
<1>5. plan \in Plans[p] /\ plan \in Uninstalled /\ plan \notin Waiting
  BY <1>1, <1>4, WhosePlans, SwapPlans, PlanKinds DEF Locked, Bare, Uninstalled
<1>6. /\ UNCHANGED <<target, installed, conf, live, state, raced, disturbed, lock>>
      /\ stop'
  BY DEF TripStop, files, history
<1>7. /\ plan \notin {Check1, Release1, Trip3, Bare3}
      /\ plan \notin {Arm1, Arm2, Arm3, Record1, Base1, Base2}
  <2>1. /\ Trip2 \notin {Check1, Release1, Trip3, Bare3}
        /\ Trip2 \notin {Arm1, Arm2, Arm3, Record1, Base1, Base2}
    BY PlansDiffer
  <2>2. /\ Bare2 \notin {Check1, Release1, Trip3, Bare3}
        /\ Bare2 \notin {Arm1, Arm2, Arm3, Record1, Base1, Base2}
    BY PlansDiffer
  <2> QED
    BY <1>4, <2>1, <2>2
<1>8. todo'[p] = plan => Known(todo[p])'
  BY <1>6, <1>7 DEF Known
<1> QED
  BY <1>1, <1>4, <1>5, <1>6, <1>8, WorkGoesOn DEF Locked, Bare

LEMMA WriteArmStep ==
  ASSUME CampaignInv, WriteArm
  PROVE  CampaignInv'
<1>1. "tick" \in Programs
  BY DEF Programs
<1>2. todo["tick"] = Arm1
  BY <1>1, PlanOfStep, FirstStep DEF WriteArm, CampaignInv
<1>3. Continue("tick", Fail1) \/ (Continue("tick", Arm2) /\ conf' = target)
  BY <1>2, NextStep, NewPlans DEF WriteArm, Done
<1>4. PICK plan \in {Arm2, Fail1} : /\ Continue("tick", plan)
                                    /\ plan = Arm2 => conf' = target
  BY <1>3, PlansDiffer
<1>5. plan \in Plans["tick"] /\ plan \notin Waiting
  BY <1>1, <1>4, WhosePlans, PlanKinds DEF Swapping
<1>6. UNCHANGED <<target, installed, live, state, stop, raced, disturbed, lock>>
  BY DEF WriteArm, sentinels, log, history
<1>7. Known(todo["tick"]) /\ todo'["tick"] = plan => Known(todo["tick"])'
  BY <1>2, <1>4, <1>6, PlansDiffer DEF Known
<1>8. installed
  BY <1>1, <1>2, PlansDiffer DEF CampaignInv, UninstalledInv, Waiting
<1> QED
  BY <1>1, <1>2, <1>4, <1>5, <1>6, <1>7, <1>8, WorkGoesOn DEF Swapping

LEMMA HealthStep ==
  ASSUME CampaignInv, HealthOk
  PROVE  CampaignInv'
<1>1. "tick" \in Programs
  BY DEF Programs
<1>2. todo["tick"] = Arm3
  BY <1>1, PlanOfStep, FirstStep DEF HealthOk, CampaignInv
<1>3. Continue("tick", Trip1) \/ (Continue("tick", Record1) /\ live # NONE)
  BY <1>2, NextStep, NewPlans DEF HealthOk, Done
<1>4. PICK plan \in {Record1, Trip1} : /\ Continue("tick", plan)
                                       /\ plan = Record1 => live # NONE
  BY <1>3, PlansDiffer
<1>5. plan \in Plans["tick"] /\ plan \notin Waiting
  BY <1>1, <1>4, WhosePlans, PlanKinds DEF Swapping, Locked
<1>6. UNCHANGED <<target, installed, conf, live, state, stop, raced, disturbed, lock>>
  BY DEF HealthOk, files, sentinels, log, history
<1>7. Known(todo["tick"]) /\ todo'["tick"] = plan => Known(todo["tick"])'
  BY <1>2, <1>4, <1>6, PlansDiffer DEF Known
<1>8. installed
  BY <1>1, <1>2, PlansDiffer DEF CampaignInv, UninstalledInv, Waiting
<1> QED
  BY <1>1, <1>2, <1>4, <1>5, <1>6, <1>7, <1>8, WorkGoesOn DEF Swapping

LEMMA RecordStep ==
  ASSUME CampaignInv, WriteState
  PROVE  CampaignInv'
<1>1. "tick" \in Programs
  BY DEF Programs
<1>2. todo["tick"] = Record1
  BY <1>1, PlanOfStep, FirstStep DEF WriteState, CampaignInv
<1>3. Continue("tick", Release1)
  BY <1>2, NextStep DEF WriteState, Done
<1>4. Release1 \in Plans["tick"] /\ Release1 \notin Waiting
  BY <1>1, WhosePlans, PlanKinds DEF Locked
<1>5. /\ UNCHANGED <<target, installed, conf, live, stop, raced, disturbed, lock>>
      /\ state' = target /\ lines' = 0 /\ foreign' = FALSE
  BY DEF WriteState, sentinels, history
<1>6. Known(todo["tick"]) /\ todo'["tick"] = Release1 => Known(todo["tick"])'
  <2>1. Settling'
    BY <1>5 DEF Settling, SettleSamples
  <2>2. Known(Record1) => Agrees'
    BY <1>5, <2>1, PlansDiffer DEF Known, Agrees
  <2> QED
    BY <1>2, <2>2, PlansDiffer DEF Known
<1>7. installed
  BY <1>1, <1>2, PlansDiffer DEF CampaignInv, UninstalledInv, Waiting
<1> QED
  BY <1>1, <1>2, <1>3, <1>4, <1>5, <1>6, <1>7, WorkGoesOn DEF Swapping

\* A copy that is made, one that fails, and one there is no snapshot for.
LEMMA CopyStep ==
  ASSUME CampaignInv, NEW p \in Programs, Copy(p)
  PROVE  CampaignInv'
<1>1. todo[p] \in {Trip2, Bare2, Base1, Fail1} /\ todo[p] \in Plans[p]
  BY PlanOfStep, FirstStep DEF Copy, CampaignInv
<1>2. disturbed => disturbed'
  BY DEF Copy
<1>3. /\ UNCHANGED <<target, installed, live, state, stop, lock>> /\ raced' = raced
      /\ disturbed => disturbed'
  BY <1>2 DEF Copy, sentinels, log
<1>4. ~installed => todo[p] \in {Trip2, Bare2} /\ conf' = conf
  <2>0. Base1 \notin Waiting /\ Fail1 \notin Waiting
    BY PlanKinds DEF Swapping
  <2>1. /\ Base1 \notin Waiting \cup {Check1, Release1, Trip1, Trip2, Bare1, Bare2}
        /\ Fail1 \notin Waiting \cup {Check1, Release1, Trip1, Trip2, Bare1, Bare2}
    BY <2>0, PlansDiffer
  <2> QED
    BY <1>1, <2>1 DEF CampaignInv, UninstalledInv, Copy
<1>5. todo[p] \in Locked \cup Bare \cup Swapping \cup {Check1}
  BY <1>1 DEF Locked, Bare, Swapping
<1>6. CASE installed /\ conf' = BASELINE /\ Done(p)
  <2>1. PICK plan \in {Trip3, Bare3, Base2, Fail2} :
          /\ Continue(p, plan)
          /\ <<todo[p], plan>> \in {<<Trip2, Trip3>>, <<Bare2, Bare3>>, <<Base1, Base2>>,
                                   <<Fail1, Fail2>>}
    <3>1. \/ Continue(p, Trip3) /\ todo[p] = Trip2
          \/ Continue(p, Bare3) /\ todo[p] = Bare2
          \/ Continue(p, Base2) /\ todo[p] = Base1
          \/ Continue(p, Fail2) /\ todo[p] = Fail1
      BY <1>1, <1>6, NextStep DEF Done
    <3> QED
      BY <3>1
  <2>2. plan \in Plans[p] /\ plan \notin Waiting
    BY <1>1, <2>1, WhosePlans, SwapPlans, PlanKinds DEF Locked, Bare, Swapping
  <2>3. Known(todo[p]) /\ todo'[p] = plan => Known(todo[p])'
    <3>1. CASE plan = Trip3 /\ todo[p] = Trip2
      BY <1>3, <1>6, <3>1, PlansDiffer DEF Known
    <3>2. CASE plan = Bare3 /\ todo[p] = Bare2
      BY <1>3, <1>6, <3>2, PlansDiffer DEF Known
    <3>3. CASE plan = Base2 /\ todo[p] = Base1
      <4>1. /\ Base2 \notin {Check1, Release1, Trip2, Bare2, Trip3, Bare3}
            /\ Base2 \notin {Arm2, Arm3, Record1}
        <5>1. \A other \in {Check1, Release1, Trip2, Bare2, Trip3, Bare3, Arm2, Arm3, Record1} :
                Len(other) # 3 \/ other[1] # "restart"
          BY PlansDiffer
        <5> QED
          BY <5>1, PlansDiffer
      <4>2. Known(Base1) => ~stop /\ target # NONE /\ target = BASELINE
        BY DEF Known
      <4> QED
        BY <1>3, <1>6, <3>3, <4>1, <4>2 DEF Known
    <3>4. CASE plan = Fail2
      <4>1. /\ Fail2 \notin {Check1, Release1, Trip2, Bare2, Trip3, Bare3}
            /\ Fail2 \notin {Arm1, Arm2, Arm3, Record1, Base1, Base2}
        BY PlansDiffer
      <4> QED
        BY <3>4, <4>1 DEF Known
    <3> QED
      BY <2>1, <3>1, <3>2, <3>3, <3>4
  <2> QED
    BY <1>3, <1>5, <1>6, <2>1, <2>2, <2>3, WorkGoesOn
<1>7. CASE /\ Continue(p, Tail(Tail(todo[p])))
           /\ disturbed' = (disturbed \/ installed) /\ conf' = conf
  <2>1. CASE todo[p] = Bare2
    <3>1. Continue(p, <<>>)
      BY <1>7, <2>1, NextStep
    <3>2. ~disturbed' /\ UninstalledInv => Agrees'
      BY <1>3, <1>7 DEF UninstalledInv, Agrees
    <3> QED
      BY <1>3, <1>7, <2>1, <3>1, <3>2, WorkIsOver
  <2>2. CASE todo[p] = Trip2
    <3>1. Continue(p, Release1)
      BY <1>7, <2>2, NextStep
    <3>2. ~disturbed' /\ UninstalledInv => Agrees'
      BY <1>3, <1>7 DEF UninstalledInv, Agrees
    <3>3. ~disturbed' /\ UninstalledInv /\ todo'[p] = Release1 => Known(todo[p])'
      BY <3>2, PlansDiffer DEF Known
    <3>4. Release1 \in Plans[p] /\ Release1 \notin Waiting /\ Release1 \in Uninstalled
      BY WhosePlans, PlanKinds DEF Locked, Uninstalled
    <3> QED
      BY <1>3, <1>5, <1>7, <3>1, <3>3, <3>4, WorkGoesOn
  <2>3. CASE todo[p] = Base1
    <3>1. Continue(p, Record1)
      BY <1>7, <2>3, NextStep
    <3>2. Record1 \in Plans[p] /\ Record1 \notin Waiting
      BY <1>1, <2>3, WhosePlans, SwapPlans, PlanKinds DEF Swapping
    <3>3. installed
      <4>1. Base1 # Trip2 /\ Base1 # Bare2
        BY DEF Base1, Trip2, Bare2
      <4> QED
        BY <1>4, <2>3, <4>1
    <3>4. disturbed'
      BY <1>7, <3>3
    <3> QED
      BY <1>3, <1>5, <3>1, <3>2, <3>3, <3>4, WorkGoesOn
  <2>4. CASE todo[p] = Fail1
    <3>1. Continue(p, Trip1)
      BY <1>7, <2>4, NextStep
    <3>2. Trip1 \in Plans[p] /\ Trip1 \notin Waiting
      BY WhosePlans, PlanKinds DEF Locked
    <3>3. installed
      <4>1. Fail1 # Trip2 /\ Fail1 # Bare2
        BY DEF Fail1, Trip2, Bare2
      <4> QED
        BY <1>4, <2>4, <4>1
    <3>4. disturbed'
      BY <1>7, <3>3
    <3> QED
      BY <1>3, <1>5, <3>1, <3>2, <3>3, <3>4, WorkGoesOn
  <2> QED
    BY <1>1, <2>1, <2>2, <2>3, <2>4
<1> QED
  BY <1>6, <1>7 DEF Copy

\* A restart on what weewx.conf says, or one that fails.
LEMMA RestartStep ==
  ASSUME CampaignInv, NEW p \in Programs, Restart(p)
  PROVE  CampaignInv'
<1>1. todo[p] \in {Trip3, Bare3, Arm2, Base2, Fail2} /\ todo[p] \in Plans[p]
  BY PlanOfStep, FirstStep DEF Restart, CampaignInv
<1>2. disturbed => disturbed'
  BY DEF Restart
<1>3. /\ UNCHANGED <<target, installed, conf, state, stop, lock>> /\ raced' = raced
      /\ disturbed => disturbed'
  BY <1>2 DEF Restart, sentinels, log
<1>4. installed
  <2>1. /\ Trip3 \notin Waiting \cup {Check1, Release1, Trip1, Trip2, Bare1, Bare2}
        /\ Bare3 \notin Waiting \cup {Check1, Release1, Trip1, Trip2, Bare1, Bare2}
    BY PlansDiffer DEF Waiting
  <2>2. /\ Arm2 \notin Waiting \cup {Check1, Release1, Trip1, Trip2, Bare1, Bare2}
        /\ Base2 \notin Waiting \cup {Check1, Release1, Trip1, Trip2, Bare1, Bare2}
        /\ Fail2 \notin Waiting \cup {Check1, Release1, Trip1, Trip2, Bare1, Bare2}
    BY PlansDiffer DEF Waiting
  <2> QED
    BY <1>1, <2>1, <2>2 DEF CampaignInv, UninstalledInv
<1>5. todo[p] \in Locked \cup Bare \cup Swapping \cup {Check1}
  BY <1>1 DEF Locked, Bare, Swapping
<1>6. ~disturbed' => live' = conf \/ (live' = NONE /\ Checked(p))
  BY DEF Restart
<1>7. CASE todo[p] = Bare3
  <2>1. Continue(p, <<>>)
    BY <1>7, NextStep DEF Restart, Done
  <2>2. ~Checked(p)
    BY <1>7, PlansDiffer DEF Checked
  <2>3. ~disturbed' /\ Known(todo[p]) => Agrees'
    BY <1>3, <1>6, <1>7, <2>2 DEF Known, Agrees, Settling, origin
  <2> QED
    BY <1>3, <1>4, <1>7, <2>1, <2>3, WorkIsOver
<1>8. CASE todo[p] = Trip3
  <2>1. Continue(p, Release1)
    BY <1>8, NextStep DEF Restart, Done
  <2>2. ~Checked(p)
    BY <1>8 DEF Checked, Trip3
  <2>3. ~disturbed' /\ Known(todo[p]) => Agrees'
    BY <1>3, <1>6, <1>8, <2>2 DEF Known, Agrees, Settling, origin
  <2>4. ~disturbed' /\ Known(todo[p]) /\ todo'[p] = Release1 => Known(todo[p])'
    BY <2>3, PlansDiffer DEF Known
  <2>5. Release1 \in Plans[p] /\ Release1 \notin Waiting
    BY WhosePlans, PlanKinds DEF Locked
  <2> QED
    BY <1>3, <1>4, <1>5, <2>1, <2>4, <2>5, WorkGoesOn
<1>9. CASE todo[p] = Arm2
  <2>1. Continue(p, Arm3)
    BY <1>9, NextStep DEF Restart, Done
  <2>2. ~disturbed' /\ Known(todo[p]) /\ todo'[p] = Arm3 => Known(todo[p])'
    BY <1>3, <1>6, <1>9, PlansDiffer DEF Known
  <2>3. Arm3 \in Plans[p] /\ Arm3 \notin Waiting
    BY <1>1, <1>9, WhosePlans, SwapPlans, PlanKinds DEF Swapping
  <2> QED
    BY <1>3, <1>4, <1>5, <2>1, <2>2, <2>3, WorkGoesOn
<1>10. CASE todo[p] = Base2
  <2>1. Continue(p, Record1)
    BY <1>10, NextStep DEF Restart, Done
  <2>2. ~Checked(p)
    BY <1>10 DEF Checked, Base2
  <2>3. ~disturbed' /\ Known(todo[p]) /\ todo'[p] = Record1 => Known(todo[p])'
    BY <1>3, <1>6, <1>10, <2>2, PlansDiffer DEF Known
  <2>4. Record1 \in Plans[p] /\ Record1 \notin Waiting
    BY <1>1, <1>10, WhosePlans, SwapPlans, PlanKinds DEF Swapping
  <2> QED
    BY <1>3, <1>4, <1>5, <2>1, <2>3, <2>4, WorkGoesOn
<1>11. CASE todo[p] = Fail2
  <2>1. Continue(p, Trip1)
    BY <1>11, NextStep DEF Restart, Done
  <2>2. todo'[p] = Trip1 => Known(todo[p])'
    BY PlansDiffer DEF Known
  <2>3. Trip1 \in Plans[p] /\ Trip1 \notin Waiting
    BY WhosePlans, PlanKinds DEF Locked
  <2> QED
    BY <1>3, <1>4, <1>5, <2>1, <2>2, <2>3, WorkGoesOn
<1> QED
  BY <1>1, <1>7, <1>8, <1>9, <1>10, <1>11

LEMMA TickCheckStep ==
  ASSUME CampaignInv, TickCheck
  PROVE  CampaignInv'
<1>1. "tick" \in Programs
  BY DEF Programs
<1>2. todo["tick"] = Check1
  BY <1>1, PlanOfStep, FirstStep DEF TickCheck, CampaignInv
<1>3. UNCHANGED <<installed, conf, live, state, stop, origin, lock>>
  BY DEF TickCheck, files
<1>4. CASE Swaps
  <2>1. PICK plan \in {Arm1, Base1} : /\ Continue("tick", plan)
                                      /\ plan = Base1 => target' = BASELINE
    <3>1. IF Want = BASELINE THEN Continue("tick", Base1) ELSE Continue("tick", Arm1)
      BY <1>4, NewPlans DEF TickCheck
    <3>2. Arm1 # Base1 /\ target' = Want
      BY <1>4 DEF Arm1, Base1, TickCheck
    <3> QED
      BY <3>1, <3>2
  <2>2. plan \in Plans["tick"] /\ plan \notin Waiting
    BY <1>1, <2>1, WhosePlans, PlanKinds DEF Swapping
  <2>3. /\ PlansInv' /\ todo'["tick"] = plan
        /\ \A q \in Programs \ {"tick"} : todo'[q] = todo[q]
    BY <1>1, <2>1, <2>2, ContinueIs DEF CampaignInv
  <2>4. /\ raced' => ~Alone
        /\ disturbed' => ~Alone
        /\ ~Alone /\ raced => raced'
        /\ ~stop /\ installed /\ target' # NONE
    BY <1>4 DEF TickCheck, Swaps
  <2>5. \A q \in Programs : /\ AtWork(q)' <=> todo'[q] \notin Waiting
                            /\ Holds(q)' <=> todo'[q] \notin {<<>>, Break1, Retake1}
    BY <2>3, AtWorkNext DEF Holds, Idle
  <2>6. ~raced' => /\ lock = "tick"
                   /\ \A q \in Programs \ {"tick"} : todo[q] \in {<<>>, Break1, Retake1}
    <3>1. CASE Alone
      BY <3>1 DEF Alone, Idle, Programs
    <3>2. CASE ~raced
      <4>1. Check1 \notin {<<>>, Break1, Retake1, Pid1}
        BY PlansDiffer
      <4>2. Holds("tick") /\ todo["tick"] # Pid1
        BY <1>2, <4>1 DEF Holds, Idle
      <4>3. \A q \in Programs \ {"tick"} : ~Holds(q)
        BY <1>1, <3>2, <4>2 DEF CampaignInv, LockInv
      <4> QED
        BY <1>1, <3>2, <4>2, <4>3 DEF CampaignInv, LockInv, Holds, Idle
    <3> QED
      BY <2>4, <3>1, <3>2
  <2>7. LockInv'
    BY <1>1, <1>3, <2>2, <2>3, <2>5, <2>6 DEF LockInv, Waiting
  <2>8. AtWorkInv'
    <3> SUFFICES ASSUME ~raced', ~disturbed'
                 PROVE  /\ Quiet' => Agrees'
                        /\ \A q \in Programs : AtWork(q)' => Known(todo[q])'
      BY DEF AtWorkInv
    <3>1. AtWork("tick")'
      BY <1>1, <2>2, <2>3, <2>5
    <3>2. \A q \in Programs \ {"tick"} : ~AtWork(q)'
      BY <2>3, <2>5, <2>6 DEF Waiting
    <3>3. Known(todo["tick"])'
      <4>1. CASE plan = Arm1
        BY <1>3, <2>3, <2>4, <4>1, PlansDiffer DEF Known
      <4>2. CASE plan = Base1
        BY <1>3, <2>1, <2>3, <2>4, <4>2, PlansDiffer DEF Known
      <4> QED
        BY <2>1, <4>1, <4>2
    <3> QED
      BY <1>1, <3>1, <3>2, <3>3 DEF Quiet
  <2>9. UninstalledInv'
    BY <1>3, <2>4 DEF UninstalledInv
  <2> QED
    BY <2>3, <2>7, <2>8, <2>9 DEF CampaignInv
<1>5. CASE ~Swaps
  <2>1. Continue("tick", Release1) /\ UNCHANGED <<target, raced, disturbed>>
    BY <1>5 DEF TickCheck, history, Release1
  <2>2. Release1 \in Plans["tick"] /\ Release1 \notin Waiting /\ Release1 \in Uninstalled
    BY <1>1, WhosePlans, PlanKinds DEF Locked, Uninstalled
  <2>3. Known(todo["tick"]) /\ todo'["tick"] = Release1 => Known(todo["tick"])'
    BY <1>2, <1>3, <2>1, PlansDiffer DEF Known, Agrees, Settling, origin
  <2> QED
    BY <1>1, <1>2, <1>3, <2>1, <2>2, <2>3, WorkGoesOn
<1> QED
  BY <1>4, <1>5

LEMMA GuardCheckStep ==
  ASSUME CampaignInv, GuardCheck
  PROVE  CampaignInv'
<1>1. "guard" \in Programs
  BY DEF Programs
<1>2. todo["guard"] = Check1
  BY <1>1, PlanOfStep, FirstStep DEF GuardCheck, CampaignInv
<1>3. UNCHANGED <<target, installed, conf, live, state, stop, origin, lock, raced, disturbed>>
  BY DEF GuardCheck, files, history
<1>4. Continue("guard", Release1) \/ Continue("guard", Trip1)
  BY NewPlans DEF GuardCheck, Release1
<1>5. CASE Continue("guard", Release1)
  <2>1. Release1 \in Plans["guard"] /\ Release1 \notin Waiting /\ Release1 \in Uninstalled
    BY <1>1, WhosePlans, PlanKinds DEF Locked, Uninstalled
  <2>2. Known(todo["guard"]) /\ todo'["guard"] = Release1 => Known(todo["guard"])'
    BY <1>2, <1>3, PlansDiffer DEF Known, Agrees, Settling, origin
  <2> QED
    BY <1>1, <1>2, <1>3, <1>5, <2>1, <2>2, WorkGoesOn
<1>6. CASE Continue("guard", Trip1)
  <2>1. Trip1 \in Plans["guard"] /\ Trip1 \notin Waiting /\ Trip1 \in Uninstalled
    BY <1>1, WhosePlans, PlanKinds DEF Locked, Uninstalled
  <2>2. todo'["guard"] = Trip1 => Known(todo["guard"])'
    BY PlansDiffer DEF Known
  <2> QED
    BY <1>1, <1>2, <1>3, <1>6, <2>1, <2>2, WorkGoesOn
<1> QED
  BY <1>4, <1>5, <1>6

LEMMA RebootStep ==
  ASSUME CampaignInv, Reboot
  PROVE  CampaignInv'
<1>1. /\ todo' = [p \in Programs |-> <<>>]
      /\ UNCHANGED <<installed, conf, state, stop, lines, foreign, raced>>
      /\ window' = "same" /\ period' = "none"
      /\ live' = conf
  BY DEF Reboot, sentinels, log
<1>2. PlansInv'
  BY <1>1, WhosePlans DEF PlansInv, Waiting
<1>3. LockInv'
  BY <1>1 DEF LockInv, Holds, Idle
<1>4. UninstalledInv'
  BY <1>1 DEF CampaignInv, UninstalledInv, Waiting
<1>5. AtWorkInv'
  <2>1. \A p \in Programs : ~AtWork(p)'
    BY <1>1 DEF AtWork, Idle
  <2>2. ~disturbed' => ~disturbed /\ Quiet
    BY DEF Reboot, Quiet
  <2>3. ~raced /\ ~disturbed' => Agrees
    BY <2>2 DEF CampaignInv, AtWorkInv
  <2>4. ~raced /\ ~disturbed' => Agrees'
    BY <1>1, <2>3 DEF Agrees, Settling, origin
  <2> QED
    BY <1>1, <2>1, <2>4 DEF AtWorkInv
<1> QED
  BY <1>2, <1>3, <1>4, <1>5 DEF CampaignInv

\* The monitor's account is that of the recorded arm, when that is what is received.
LEMMA MonitorStep ==
  ASSUME CloseWindow \/ Recount \/ \E good \in BOOLEAN : Sample(good),
         UNCHANGED <<conf, live, state, stop>>, Agrees, Station = live
  PROVE  Agrees'
<1>1. Agrees' <=> \/ stop \/ state = NONE
                  \/ conf = state /\ live = state /\ ~foreign' /\ Settling'
  BY DEF Agrees
<1> SUFFICES ASSUME ~stop, state # NONE, ~foreign, Settling, live = state
             PROVE  ~foreign' /\ Settling'
  BY <1>1 DEF Agrees
<1>2. CASE CloseWindow
  BY <1>2 DEF CloseWindow, Settling, SettleSamples
<1>3. CASE Recount
  BY <1>3 DEF Recount, Settling, SettleSamples
<1>4. ASSUME NEW good \in BOOLEAN, Sample(good)
      PROVE  ~foreign' /\ Settling'
  <2>1. ~Mixed
    BY DEF Mixed, Settling
  <2>2. ~foreign'
    BY <1>4, <2>1 DEF Sample, Reading
  <2>3. /\ period # "none" /\ period' = "none" /\ window' = window
        /\ lines' = IF lines < SettleSamples THEN lines + 1 ELSE lines
    BY <1>4 DEF Sample, Reading
  <2>4. Settling'
    BY <2>3 DEF Settling, SettleSamples
  <2> QED
    BY <2>2, <2>4
<1> QED
  BY <1>2, <1>3, <1>4

LEMMA OtherSteps ==
  ASSUME CampaignInv,
         \/ Install \/ ClearStop \/ RowDue \/ Settle \/ PauseAges
         \/ CloseWindow \/ Recount \/ \E good \in BOOLEAN : Sample(good)
         \/ UNCHANGED campaignVars
  PROVE  CampaignInv'
<1>1. PlansInv /\ LockInv /\ AtWorkInv /\ UninstalledInv
  BY DEF CampaignInv
<1>2. CASE Install
  <2>1. /\ UNCHANGED <<todo, target, lock, conf, live, stop, raced, disturbed, origin>>
        /\ state' = NONE /\ ~installed /\ installed'
    BY <1>2 DEF Install, sentinels, log, history
  <2>2. state' = state
    BY <2>1, <1>1 DEF UninstalledInv
  <2>3. UNCHANGED <<todo, target, lock, conf, live, state, stop, raced>>
    BY <2>1, <2>2
  <2>4. Agrees => Agrees'
    BY <2>1, <2>2 DEF Agrees, Settling, origin
  <2>5. PlansInv' /\ LockInv' /\ AtWorkInv'
    BY <1>1, <2>1, <2>3, <2>4, OutsideStep
  <2> QED
    BY <2>1, <2>5 DEF CampaignInv, UninstalledInv
<1>3. CASE ClearStop
  <2>1. UNCHANGED <<todo, installed, conf, live, state, lock, raced>> /\ disturbed' = TRUE
    BY <1>3 DEF ClearStop, files, log
  <2> QED
    BY <1>1, <2>1 DEF CampaignInv, PlansInv, LockInv, Holds, Idle, AtWorkInv, UninstalledInv
<1>4. CASE \/ RowDue \/ Settle \/ PauseAges \/ UNCHANGED campaignVars
  <2>1. /\ UNCHANGED <<todo, target, lock, conf, live, state, stop, raced>>
        /\ UNCHANGED <<disturbed, origin, installed>>
    BY <1>4 DEF RowDue, Settle, PauseAges, campaignVars, files, sentinels, log, history
  <2>2. Agrees => Agrees'
    BY <2>1 DEF Agrees, Settling, origin
  <2>3. PlansInv' /\ LockInv' /\ AtWorkInv'
    BY <1>1, <2>1, <2>2, OutsideStep
  <2> QED
    BY <1>1, <2>1, <2>3 DEF CampaignInv, UninstalledInv
<1>5. CASE CloseWindow \/ Recount \/ \E good \in BOOLEAN : Sample(good)
  <2>1. /\ UNCHANGED <<todo, target, lock, conf, live, state, stop, raced>>
        /\ UNCHANGED <<disturbed, installed>>
    BY <1>5 DEF CloseWindow, Recount, Sample, Reading, files, sentinels, history
  <2>2. Agrees /\ Station = live => Agrees'
    BY <1>5, <2>1, MonitorStep
  <2>3. PlansInv' /\ LockInv' /\ AtWorkInv'
    BY <1>1, <2>1, <2>2, OutsideStep
  <2> QED
    BY <1>1, <2>1, <2>3 DEF CampaignInv, UninstalledInv
<1> QED
  BY <1>2, <1>3, <1>4, <1>5

LEMMA CampaignInvInit ==
  ASSUME CampaignInit
  PROVE  CampaignInv
<1>1. todo = [p \in Programs |-> <<>>]
  BY DEF CampaignInit
<1>2. PlansInv
  BY <1>1, WhosePlans DEF PlansInv, Waiting
<1>3. LockInv
  BY <1>1 DEF LockInv, Holds, Idle
<1>4. UninstalledInv
  BY <1>1 DEF CampaignInit, UninstalledInv, Waiting
<1>5. \A p \in Programs : ~AtWork(p)
  BY <1>1 DEF AtWork, Idle
<1>6. AtWorkInv
  BY <1>5 DEF CampaignInit, AtWorkInv, Agrees
<1> QED
  BY <1>2, <1>3, <1>4, <1>6 DEF CampaignInv

LEMMA CampaignInvNext ==
  ASSUME CampaignInv, [CampaignNext]_campaignVars
  PROVE  CampaignInv'
<1>1. ASSUME NEW p \in Programs, Program(p)
      PROVE  CampaignInv'
  BY <1>1, BreakStep, RetakeStep, PidStep, ReleaseStep, StopStep, CopyStep, RestartStep DEF Program
<1>2. "tick" \in Programs /\ "guard" \in Programs /\ "abort" \in Programs
  BY DEF Programs
<1>3. CASE Tick
  BY <1>1, <1>2, <1>3, TickCheckStep, WriteArmStep, HealthStep, RecordStep DEF Tick
<1>4. CASE Guard
  BY <1>1, <1>2, <1>4, GuardCheckStep DEF Guard
<1>5. CASE Abort
  BY <1>1, <1>2, <1>5, AbortUnlockedStep DEF Abort
<1>6. CASE \E p \in Programs : Start(p)
  BY <1>6, MkdirStep
<1>7. CASE Reboot
  BY <1>7, RebootStep
<1> QED
  BY <1>3, <1>4, <1>5, <1>6, <1>7, OtherSteps DEF CampaignNext

\* Every state of a campaign is known: the lists, the lock, the files at each step.
THEOREM CampaignInvariant == CampaignSpec => []CampaignInv
BY CampaignInvInit, CampaignInvNext, PTL DEF CampaignSpec

\* Under a lock that was not lost or left aside no two programs are at work.
THEOREM LockSerialises == CampaignSpec => []OneAtATime
<1>1. CampaignInv => OneAtATime
  <2> SUFFICES ASSUME CampaignInv, ~raced, NEW p \in Programs, NEW q \in Programs,
                      AtWork(p), AtWork(q)
               PROVE  p = q
    BY DEF OneAtATime
  <2>1. todo[p] \notin Waiting /\ todo[q] \notin Waiting
    BY AtWorkIs DEF CampaignInv
  <2>2. Holds(p) /\ Holds(q)
    BY <2>1 DEF Holds, Idle, Waiting
  <2> QED
    BY <2>2 DEF CampaignInv, LockInv
<1> QED
  BY <1>1, CampaignInvariant, PTL

THEOREM RecordAgrees == CampaignSpec => []RecordIsTrue
<1>1. CampaignInv => RecordIsTrue
  BY DEF CampaignInv, AtWorkInv, Agrees, RecordIsTrue
<1> QED
  BY <1>1, CampaignInvariant, PTL

THEOREM StopEndsOnBaseline == CampaignSpec => []StopMeansBaseline
<1>1. CampaignInv => StopMeansBaseline
  BY DEF CampaignInv, AtWorkInv, Agrees, StopMeansBaseline
<1> QED
  BY <1>1, CampaignInvariant, PTL

\* All but the first two readings harvested under an arm's name average only what was
\* received on it: only a tick that starts a swap takes a target and harvests, and it
\* looked at agreeing files.
THEOREM HarvestIsTrue == CampaignSpec => HarvestTrue
<1>1. ASSUME CampaignInv, [CampaignNext]_campaignVars,
             target = NONE, target' # NONE, state # NONE, ~raced, ~disturbed
      PROVE  ~foreign
  <2>1. TickCheck
    <3>1. ASSUME NEW p \in Programs, Program(p)
          PROVE  FALSE
      BY <1>1, <3>1 DEF Program, Break, Retake, WritePid, Release, TripStop, Copy, Restart
    <3>2. "tick" \in Programs /\ "guard" \in Programs /\ "abort" \in Programs
      BY DEF Programs
    <3>3. ~(WriteArm \/ HealthOk \/ WriteState \/ GuardCheck \/ AbortUnlocked)
      BY <1>1 DEF WriteArm, HealthOk, WriteState, GuardCheck, AbortUnlocked
    <3>4. ~(Install \/ ClearStop \/ Reboot \/ RowDue \/ Settle \/ PauseAges)
      BY <1>1 DEF Install, ClearStop, Reboot, RowDue, Settle, PauseAges
    <3>5. /\ ~(\E p \in Programs : Start(p)) /\ ~(\E good \in BOOLEAN : Sample(good))
          /\ ~(CloseWindow \/ Recount)
      BY <1>1 DEF Start, Sample, Reading, CloseWindow, Recount
    <3>6. ~(UNCHANGED campaignVars)
      BY <1>1 DEF campaignVars
    <3> QED
      BY <1>1, <3>1, <3>2, <3>3, <3>4, <3>5, <3>6 DEF CampaignNext, Tick, Guard, Abort
  <2>2. "tick" \in Programs
    BY DEF Programs
  <2>3. todo["tick"] = Check1
    BY <1>1, <2>1, <2>2, PlanOfStep, FirstStep DEF TickCheck, CampaignInv
  <2>4. AtWork("tick")
    BY <1>1, <2>2, <2>3, AtWorkIs, PlanKinds DEF CampaignInv
  <2>5. Agrees
    BY <1>1, <2>2, <2>3, <2>4 DEF CampaignInv, AtWorkInv, Known
  <2>6. ~stop
    BY <1>1, <2>1 DEF TickCheck, Swaps
  <2> QED
    BY <1>1, <2>5, <2>6 DEF Agrees, Settling, origin
<1>2. CampaignInv /\ [CampaignNext]_campaignVars
        => [target = NONE /\ target' # NONE /\ state # NONE /\ ~raced /\ ~disturbed
              => ~foreign]_campaignVars
  BY <1>1
<1> QED
  BY <1>2, CampaignInvariant, PTL DEF CampaignSpec, HarvestTrue

================================================================================
