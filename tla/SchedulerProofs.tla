---------------------------- MODULE SchedulerProofs ----------------------------
(***************************************************************************)
(* Proofs about Scheduler, for any period of the cron, any number of       *)
(* crashes and of users' actions, and any length of time.                  *)
(***************************************************************************)
EXTENDS Scheduler, TLAPS

-----------------------------------------------------------------------------
(* Tasks and patches.                                                      *)

LEMMA TaskFields ==
  ASSUME NEW t \in Tasks
  PROVE  /\ t.manual \in Times \cup {None} /\ t.enabled \in BOOLEAN /\ t.scheduled \in BOOLEAN
         /\ t.lastRun \in Times \cup {None} /\ t.name \in Times \cup {None}
         /\ t.status \in {"none", "Success", "Failed"} /\ t.next \in Nat \cup {None}
  BY DEF Tasks

(* A patch writes the status fields in which its two objects differ, and       *)
(* leaves the rest of the Task alone.                                          *)
LEMMA PatchedTask ==
  ASSUME task \in Tasks, NEW from \in Tasks, NEW to \in Tasks
  PROVE  /\ StatusPatch(from, to) \in Tasks
         /\ StatusPatch(from, to).name = IF to.name # from.name THEN to.name ELSE task.name
         /\ StatusPatch(from, to).lastRun
              = IF to.lastRun # from.lastRun THEN to.lastRun ELSE task.lastRun
  BY DEF Tasks, StatusPatch, StatusFields

LEMMA NextOccurrence ==
  ASSUME NEW t \in Nat
  PROVE  NextAfter(t) \in Nat
  <1>1. t \div Period \in Nat
    BY TimeAssumption
  <1> QED BY <1>1, TimeAssumption DEF NextAfter

LEMMA TypeInit == Init => TypeOK
  <1> SUFFICES ASSUME Init PROVE TypeOK
    OBVIOUS
  <1>1. Blank \in Tasks
    BY DEF Blank, Tasks
  <1>2. PICK e \in BOOLEAN, s \in BOOLEAN : task = [Blank EXCEPT !.enabled = e, !.scheduled = s]
    BY DEF Init
  <1>3. task \in Tasks
    BY <1>1, <1>2 DEF Tasks
  <1>4. 0 \in Times /\ 0 \in 0..MaxCrashes /\ 0 \in 0..MaxEdits
    BY TimeAssumption DEF Times
  <1>5. cache \in Tasks /\ copy \in Tasks /\ base \in Tasks
    BY <1>1, <1>3 DEF Init
  <1>6. /\ now \in Times /\ request = None /\ mine = None /\ pc = "idle"
        /\ failed = FALSE /\ served = {} /\ crashes \in 0..MaxCrashes /\ edits \in 0..MaxEdits
    BY <1>4 DEF Init
  <1>7. runs \in [Times -> Phases]
    BY DEF Init, Phases
  <1> QED BY <1>3, <1>5, <1>6, <1>7 DEF TypeOK, WorkPC

-----------------------------------------------------------------------------
(* The inductive invariant.                                                *)

\* A TaskRun that a Task names has been created.
Created(t) == t = None \/ runs[t] # "absent"

\* The worker's TaskRun has no report yet, until it has; a skip has its record
\* before the Task is told.
RunInv ==
    /\ pc \in {"mark", "name", "turn", "report", "skipmark"} =>
          mine # None /\ runs[mine] \in {"Pending", "Running"}
    /\ pc = "outcome" => mine # None /\ runs[mine] # "absent"
    /\ pc = "skipoutcome" => mine # None /\ runs[mine] = "Failed"

\* Whatever version of the Task one holds, it names no run that is still to come.
CreatedInv ==
    Created(task.name) /\ Created(cache.name) /\ Created(copy.name) /\ Created(base.name)

\* The worker's own object names its run from the start of the turn, and the
\* baseline of the outcome does not.
NameInv ==
    /\ pc \in {"mark", "name"} => copy.name # mine
    /\ pc \in {"turn", "report", "outcome"} => copy.name = mine /\ base.name # mine

Inv == CreatedInv /\ RunInv /\ NameInv

LEMMA InvInit == Init => Inv
  <1> SUFFICES ASSUME Init PROVE Inv
    OBVIOUS
  <1>1. PICK e \in BOOLEAN, s \in BOOLEAN : task = [Blank EXCEPT !.enabled = e, !.scheduled = s]
    BY DEF Init
  <1>2. Blank.name = None /\ task.name = None
    BY <1>1 DEF Blank
  <1>3. cache.name = None /\ copy.name = None /\ base.name = None /\ pc = "idle"
    BY <1>2 DEF Init
  <1> QED BY <1>2, <1>3 DEF Inv, CreatedInv, RunInv, NameInv, Created

-----------------------------------------------------------------------------
(* The steps of the worker that write the Task.                            *)

\* Objects of the worker that it may write: typed, and naming created runs.
Sound(t) == t \in Tasks /\ Created(t.name)

(* A patch that succeeds, fails, or fails after its effect leaves the Task and *)
(* the local object sound.                                                     *)
LEMMA PatchSound ==
  ASSUME Sound(task), NEW from, Sound(from), NEW to, Sound(to)
  PROVE  Sound(StatusPatch(from, to))
  BY PatchedTask DEF Sound

LEMMA PatchTaskSound ==
  ASSUME Sound(task), NEW from, Sound(from), NEW to, Sound(to), PatchTask(from, to)
  PROVE  /\ task' \in {task, StatusPatch(from, to)}
         /\ copy' \in {to, StatusPatch(from, to)}
         /\ Sound(StatusPatch(from, to))
  BY PatchSound DEF PatchTask

\* TypeOK /\ Inv, grouped: the versions of the Task, and the rest.
State == Sound(task) /\ Sound(cache) /\ Sound(copy) /\ Sound(base)
Control ==
    /\ now \in Times
    /\ runs \in [Times -> Phases]
    /\ pc \in WorkPC
    /\ request \in Times \cup {None}
    /\ mine \in Times \cup {None}
    /\ pc \in {"mark", "name", "turn", "report", "outcome"} => mine # None
    /\ pc = "clear" => request # None
    /\ failed \in BOOLEAN
    /\ served \subseteq Times
    /\ crashes \in 0..MaxCrashes
    /\ edits \in 0..MaxEdits

LEMMA Grouped ==
  /\ TypeOK /\ Inv => State /\ Control /\ RunInv /\ NameInv
  /\ State' /\ Control' /\ RunInv' /\ NameInv' => TypeOK' /\ Inv'
  BY DEF TypeOK, Inv, CreatedInv, State, Control, Sound

(* A version that is sound stays so while TaskRuns are only added and changed. *)
LEMMA SoundStays ==
  ASSUME Control, NEW t, Sound(t),
         \A x \in Times : runs[x] # "absent" => runs'[x] # "absent"
  PROVE  t \in Tasks /\ (t.name = None \/ runs'[t.name] # "absent")
  BY TaskFields DEF Sound, Created, Control

(* A return of Reconcile forgets everything but the Task and its runs.         *)
LEMMA Returned ==
  ASSUME Control, Done, Sound(task)', Sound(cache)', runs' \in [Times -> Phases],
         now' \in Times, served' = served, crashes' \in 0..MaxCrashes, edits' \in 0..MaxEdits
  PROVE  TypeOK' /\ Inv'
  <1>1. Sound(Blank)'
    BY DEF Sound, Created, Blank, Tasks
  <1>2. copy' = Blank /\ base' = Blank
    BY DEF Done
  <1>3. State'
    <2>1. Sound(copy)' /\ Sound(base)'
      BY <1>1, <1>2 DEF Sound, Created, Blank
    <2> QED BY <2>1 DEF State
  <1>4. Control' /\ RunInv' /\ NameInv'
    BY DEF Done, Control, RunInv, NameInv, WorkPC
  <1> QED BY <1>3, <1>4, Grouped

-----------------------------------------------------------------------------
(* The environment of the worker.                                          *)

(* What users and the clock do keeps the Task sound and the worker as it is.   *)
LEMMA EnvironmentStep ==
  ASSUME TypeOK, Inv, Tick \/ RequestRun \/ Toggle \/ Sync \/ UNCHANGED vars
  PROVE  TypeOK' /\ Inv'
  <1>n. State /\ Control /\ RunInv /\ NameInv
    BY Grouped
  <1> USE DEF workVars, counters, apiVars
  <1>1. UNCHANGED <<runs, workVars, served>>
    BY DEF Tick, RequestRun, Toggle, Sync, vars
  <1>2. task' \in Tasks /\ task'.name = task.name
    <2>1. CASE RequestRun
      <3>1. task' = [task EXCEPT !.manual = now]
        BY <2>1 DEF RequestRun
      <3> QED BY <3>1, <1>n DEF State, Sound, Control, Tasks
    <2>2. CASE Toggle
      <3>1. task' = [task EXCEPT !.enabled = ~@]
        BY <2>2 DEF Toggle
      <3>2. task.enabled \in BOOLEAN /\ (~task.enabled) \in BOOLEAN
        BY <1>n, TaskFields DEF State, Sound
      <3> QED BY <3>1, <3>2, <1>n DEF State, Sound, Tasks
    <2>3. CASE Tick \/ Sync \/ UNCHANGED vars
      BY <1>n, <2>3 DEF Tick, Sync, vars, State, Sound
    <2> QED BY <2>1, <2>2, <2>3
  <1>3. cache' \in {cache, task}
    BY DEF Tick, RequestRun, Toggle, Sync, vars
  <1>4. State'
    BY <1>n, <1>1, <1>2, <1>3 DEF State, Sound, Created
  <1>5. now' \in Times /\ crashes' \in 0..MaxCrashes /\ edits' \in 0..MaxEdits
    BY <1>n, TimeAssumption DEF Tick, RequestRun, Toggle, Sync, vars, Control, Times
  <1>6. Control' /\ RunInv' /\ NameInv'
    BY <1>n, <1>1, <1>5 DEF Control, RunInv, NameInv
  <1> QED BY <1>4, <1>6, Grouped

LEMMA CrashStep == TypeOK /\ Inv /\ Crash => TypeOK' /\ Inv'
  <1> SUFFICES ASSUME TypeOK, Inv, Crash PROVE TypeOK' /\ Inv'
    OBVIOUS
  <1>n. State /\ Control
    BY Grouped
  <1>1. UNCHANGED <<task, runs, now, served, edits>> /\ cache' = task /\ Done
    BY DEF Crash, apiVars
  <1>2. crashes' \in 0..MaxCrashes
    BY <1>n, TimeAssumption DEF Crash, Control
  <1>3. Sound(task)' /\ Sound(cache)'
    BY <1>n, <1>1 DEF State, Sound, Created
  <1> QED BY <1>n, <1>1, <1>2, <1>3, Returned DEF Control

-----------------------------------------------------------------------------
(* The worker.                                                             *)

(* A step of the worker that writes no version of the Task, and that leaves    *)
(* the runs, but for its own, alone.                                           *)
LEMMA QuietStep ==
  ASSUME TypeOK, Inv, Begin \/ Fire \/ EndTurn
  PROVE  TypeOK' /\ Inv'
  <1>n. State /\ Control /\ RunInv /\ NameInv
    BY Grouped
  <1> USE DEF apiVars, counters, At
  <1>1. UNCHANGED <<task, runs, cache, base>> /\ copy' \in {copy, cache}
    BY DEF Begin, Fire, EndTurn
  <1>2. State'
    BY <1>n, <1>1 DEF State, Sound, Created
  <1>3. cache.manual \in Times \cup {None}
    BY <1>n, TaskFields DEF State, Sound
  <1>4. CASE Begin
    BY <1>n, <1>3, <1>4, <1>2, Grouped DEF Begin, Branch, Control, RunInv, NameInv, WorkPC
  <1>5. CASE Fire
    BY <1>n, <1>5, <1>2, Grouped DEF Fire, Control, RunInv, NameInv, WorkPC
  <1>6. CASE EndTurn
    BY <1>n, <1>6, <1>2, Grouped DEF EndTurn, Control, RunInv, NameInv, WorkPC
  <1> QED BY <1>4, <1>5, <1>6

(* fire returns to Reconcile, which clears a manual run or is done.            *)
LEMMA FireReturned ==
  ASSUME State, Control, NEW err, FireReturns(err), UNCHANGED <<now, task, cache, served, counters>>,
         runs' \in [Times -> Phases], \A x \in Times : runs[x] # "absent" => runs'[x] # "absent"
  PROVE  TypeOK' /\ Inv'
  <1>1. Sound(task)' /\ Sound(cache)'
    BY SoundStays DEF State, Sound, Created
  <1>2. CASE Done
    BY <1>1, <1>2, Returned DEF Control, counters
  <1>3. CASE /\ request # None /\ pc' = "clear"
             /\ UNCHANGED <<request, copy, base, mine, failed>>
    <2>1. Sound(copy)' /\ Sound(base)'
      BY <1>3, SoundStays DEF State, Sound, Created
    <2>2. Control' /\ RunInv' /\ NameInv'
      BY <1>3 DEF Control, RunInv, NameInv, WorkPC, counters
    <2> QED BY <1>1, <2>1, <2>2, Grouped DEF State
  <1> QED BY <1>2, <1>3 DEF FireReturns

LEMMA CreateRunStep ==
  ASSUME TypeOK, Inv, NEW here, NEW next,
         <<here, next>> \in {<<"create", "mark">>, <<"skip", "skipmark">>},
         CreateRun(here, next)
  PROVE  TypeOK' /\ Inv'
  <1>n. State /\ Control /\ RunInv /\ NameInv
    BY Grouped
  <1>1. ASSUME NEW t \in Creatable,
               runs' = [runs EXCEPT ![t] = IF @ = "absent" THEN "Pending" ELSE @],
               mine' = t, pc' = next, UNCHANGED <<request, copy, base, failed>>
        PROVE  TypeOK' /\ Inv'
    <2>1. t = now /\ t \in Times /\ runs[t] = "absent"
      BY <1>n DEF Creatable, Control
    <2>2. /\ runs' \in [Times -> Phases] /\ runs'[t] = "Pending"
          /\ \A x \in Times : runs[x] # "absent" => runs'[x] # "absent"
      BY <1>n, <1>1, <2>1 DEF Control, Phases
    <2>3. UNCHANGED <<now, task, cache, served, counters>>
      BY DEF CreateRun
    <2>4. State'
      <3>1. Sound(task)' /\ Sound(cache)'
        BY <1>n, <2>2, <2>3, SoundStays DEF State, Sound, Created
      <3>2. Sound(copy)' /\ Sound(base)'
        BY <1>n, <1>1, <2>2, SoundStays DEF State, Sound, Created
      <3> QED BY <3>1, <3>2 DEF State
    <2>5. copy.name # t
      BY <1>n, <2>1, TimeAssumption DEF State, Sound, Created, Times
    <2>6. t # None
      BY <2>1, TimeAssumption DEF Times
    <2>7. Control' /\ RunInv' /\ NameInv'
      BY <1>n, <1>1, <2>1, <2>2, <2>3, <2>5, <2>6
      DEF Control, RunInv, NameInv, WorkPC, counters
    <2> QED BY <2>4, <2>7, Grouped
  <1>2. ASSUME runs' \in {runs} \cup {[runs EXCEPT ![t] = "Pending"] : t \in Creatable},
               FireReturns(TRUE)
        PROVE  TypeOK' /\ Inv'
    <2>1. /\ runs' \in [Times -> Phases]
          /\ \A x \in Times : runs[x] # "absent" => runs'[x] # "absent"
      BY <1>n, <1>2 DEF Control, Phases, Creatable
    <2>2. UNCHANGED <<now, task, cache, served, counters>>
      BY DEF CreateRun
    <2> QED BY <1>n, <1>2, <2>1, <2>2, FireReturned
  <1> QED BY <1>1, <1>2 DEF CreateRun

(* The status of a TaskRun moves.                                              *)
LEMMA PatchRunStep ==
  ASSUME State, Control, mine # None, NEW phase \in Phases \ {"absent"},
         PatchRun(phase) \/ UNCHANGED runs
  PROVE  /\ runs' \in [Times -> Phases]
         /\ \A x \in Times : runs[x] # "absent" => runs'[x] # "absent"
         /\ runs'[mine] \in {runs[mine], phase}
         /\ PatchRun(phase) => runs'[mine] = phase
  BY DEF Control, PatchRun

(* The steps that write the TaskRun and nothing of the Task.                   *)
LEMMA ReportStep ==
  ASSUME TypeOK, Inv, MarkRunning \/ Report \/ MarkSkipped
  PROVE  TypeOK' /\ Inv'
  <1>n. State /\ Control /\ RunInv /\ NameInv
    BY Grouped
  <1>m. mine # None /\ mine \in Times /\ runs[mine] \in {"Pending", "Running"}
    BY <1>n DEF MarkRunning, Report, MarkSkipped, At, RunInv, Control
  <1>1. ASSUME NEW phase \in Phases \ {"absent"}, PatchRun(phase) \/ UNCHANGED runs,
               UNCHANGED <<task, cache, copy, base>>
        PROVE  State'
    <2>1. \A x \in Times : runs[x] # "absent" => runs'[x] # "absent"
      BY <1>n, <1>m, <1>1, PatchRunStep
    <2>2. Sound(task)' /\ Sound(cache)'
      BY <1>n, <1>1, <2>1, SoundStays DEF State, Sound, Created
    <2>3. Sound(copy)' /\ Sound(base)'
      BY <1>n, <1>1, <2>1, SoundStays DEF State, Sound, Created
    <2> QED BY <2>2, <2>3 DEF State
  <1>2. CASE MarkRunning
    <2>1. /\ runs' \in [Times -> Phases] /\ runs'[mine] \in {"Pending", "Running"}
          /\ State'
      BY <1>n, <1>m, <1>1, <1>2, PatchRunStep DEF MarkRunning, Phases
    <2>2. Control' /\ RunInv' /\ NameInv'
      BY <1>n, <1>m, <1>2, <2>1
      DEF MarkRunning, At, Control, RunInv, NameInv, WorkPC, counters
    <2> QED BY <2>1, <2>2, Grouped
  <1>3. CASE Report
    <2> DEFINE phase == IF failed THEN "Failed" ELSE "Completed"
    <2>1. phase \in Phases \ {"absent"}
      BY DEF Phases
    <2>2. PatchRun(phase) \/ UNCHANGED runs
      BY <1>3 DEF Report
    <2>3. UNCHANGED <<task, cache, copy, base>>
      BY <1>3 DEF Report
    <2> HIDE DEF phase
    <2>4. /\ runs' \in [Times -> Phases] /\ runs'[mine] # "absent"
          /\ State'
      BY <1>n, <1>m, <1>1, <2>1, <2>2, <2>3, PatchRunStep
    <2>5. Control' /\ RunInv' /\ NameInv'
      BY <1>n, <1>m, <1>3, <2>4
      DEF Report, At, Control, RunInv, NameInv, WorkPC, counters
    <2> QED BY <2>4, <2>5, Grouped
  <1>4. CASE MarkSkipped
    <2>1. UNCHANGED <<now, task, cache, served, counters>> /\ SkipRecorded /\ pc = "skipmark"
      BY <1>4 DEF MarkSkipped, At
    <2>2. CASE /\ PatchRun("Failed") /\ pc' = "skipoutcome"
               /\ UNCHANGED <<request, copy, base, mine, failed>>
      <3>1. /\ runs' \in [Times -> Phases] /\ runs'[mine] = "Failed"
            /\ State'
        BY <1>n, <1>m, <1>1, <2>1, <2>2, PatchRunStep DEF Phases
      <3>2. Control' /\ RunInv' /\ NameInv'
        BY <1>n, <1>m, <2>1, <2>2, <3>1 DEF Control, RunInv, NameInv, WorkPC, counters
      <3> QED BY <3>1, <3>2, Grouped
    <2>3. CASE (PatchRun("Failed") \/ UNCHANGED runs) /\ FireReturns(TRUE)
      <3>1. /\ runs' \in [Times -> Phases]
            /\ \A x \in Times : runs[x] # "absent" => runs'[x] # "absent"
        BY <1>n, <1>m, <2>3, PatchRunStep DEF Phases
      <3> QED BY <1>n, <2>1, <2>3, <3>1, FireReturned
    <2> QED BY <2>1, <2>2, <2>3 DEF SkipRecorded
  <1> QED BY <1>2, <1>3, <1>4

(* The Task is patched with an outcome, and fire returns.                      *)
LEMMA SettleStep ==
  ASSUME State, Control, NEW from, Sound(from), NEW to, Sound(to), Settle(from, to),
         UNCHANGED <<now, runs, cache, served, counters>>
  PROVE  TypeOK' /\ Inv'
  <1>1. CASE task' \in {task, StatusPatch(from, to)} /\ Done
    <2>1. Sound(task)' /\ Sound(cache)'
      BY <1>1, PatchSound DEF State, Sound, Created
    <2> QED BY <1>1, <2>1, Returned DEF Control, counters
  <1>2. CASE /\ request # None /\ PatchTask(from, to) /\ pc' = "clear"
             /\ UNCHANGED <<request, base, mine, failed>>
    <2>1. /\ task' \in {task, StatusPatch(from, to)} /\ copy' \in {to, StatusPatch(from, to)}
          /\ Sound(StatusPatch(from, to))
      BY <1>2, PatchTaskSound DEF State
    <2>2. State'
      BY <1>2, <2>1 DEF State, Sound, Created
    <2>3. Control' /\ RunInv' /\ NameInv'
      BY <1>2 DEF Control, RunInv, NameInv, WorkPC, counters
    <2> QED BY <2>2, <2>3, Grouped
  <1> QED BY <1>1, <1>2 DEF Settle

(* The Task as the worker is about to write it.                                *)
LEMMA OutcomeTasks ==
  ASSUME State, Control, NEW status \in {"Success", "Failed"}
  PROVE  /\ Sound([copy EXCEPT !.lastRun = now, !.status = status])
         /\ [copy EXCEPT !.lastRun = now, !.status = status].name = copy.name
         /\ [copy EXCEPT !.lastRun = now, !.status = status].lastRun = now
         /\ mine # None /\ runs[mine] # "absent" =>
              /\ Sound([copy EXCEPT !.name = mine])
              /\ Sound([copy EXCEPT !.lastRun = now, !.name = mine, !.status = status])
         /\ [copy EXCEPT !.name = mine].name = mine
         /\ \A next \in Nat \cup {None} : Sound([copy EXCEPT !.next = next])
  BY DEF State, Control, Sound, Created, Tasks

(* A Task that is paused, and one whose occurrence is, or is not, due.         *)
LEMMA ScheduleStep ==
  ASSUME TypeOK, Inv, PatchPaused \/ Schedule
  PROVE  TypeOK' /\ Inv'
  <1>n. State /\ Control /\ RunInv /\ NameInv
    BY Grouped
  <1> DEFINE Planned(next) == [copy EXCEPT !.next = next]
  <1>1. \A next \in Nat \cup {None} :
          Sound(Planned(next)) /\ Sound(StatusPatch(copy, Planned(next)))
    BY <1>n, OutcomeTasks, PatchSound DEF State
  <1>2. UNCHANGED <<now, runs, cache, served, counters>>
    BY DEF PatchPaused, Schedule
  <1> HIDE DEF Planned
  <1>d. ASSUME NEW next \in Nat \cup {None}, task' \in {task, StatusPatch(copy, Planned(next))},
               Done
        PROVE  TypeOK' /\ Inv'
    <2>1. Sound(task)' /\ Sound(cache)'
      BY <1>n, <1>d, <1>1, <1>2 DEF State, Sound, Created
    <2> QED BY <1>n, <1>d, <1>2, <2>1, Returned DEF Control, counters
  <1>3. CASE PatchPaused
    <2>1. Done /\ task' \in {task, StatusPatch(copy, Planned(None))}
      BY <1>3 DEF PatchPaused, Planned
    <2> QED BY <2>1, <1>d
  <1>4. CASE Schedule
    <2> DEFINE next == NextAfter(IF copy.lastRun = None THEN 0 ELSE copy.lastRun)
    <2>1. next \in Nat
      BY <1>n, TaskFields, NextOccurrence, TimeAssumption DEF State, Sound, Times
    <2>2. \/ /\ UNCHANGED <<task, copy>> \/ PatchTask(copy, Planned(next))
             /\ pc' = "fire"
             /\ UNCHANGED <<request, base, mine, failed>>
          \/ task' \in {task, StatusPatch(copy, Planned(next))} /\ Done
      BY <1>4 DEF Schedule, Planned
    <2> HIDE DEF next
    <2>3. CASE task' \in {task, StatusPatch(copy, Planned(next))} /\ Done
      BY <2>1, <2>3, <1>d
    <2>4. CASE /\ UNCHANGED <<task, copy>> \/ PatchTask(copy, Planned(next))
               /\ pc' = "fire"
               /\ UNCHANGED <<request, base, mine, failed>>
      <3>1. /\ task' \in {task, StatusPatch(copy, Planned(next))}
            /\ copy' \in {copy, Planned(next), StatusPatch(copy, Planned(next))}
        BY <1>n, <1>1, <2>1, <2>4, PatchTaskSound DEF State
      <3>2. State'
        BY <1>n, <1>1, <1>2, <2>1, <2>4, <3>1 DEF State, Sound, Created
      <3>3. Control' /\ RunInv' /\ NameInv'
        BY <1>n, <1>2, <2>4 DEF Control, RunInv, NameInv, WorkPC, counters
      <3> QED BY <3>2, <3>3, Grouped
    <2> QED BY <2>2, <2>3, <2>4
  <1> QED BY <1>3, <1>4

(* The Task names its run, whether or not the patch gets through.              *)
LEMMA NameRunStep ==
  ASSUME TypeOK, Inv, NameRun
  PROVE  TypeOK' /\ Inv'
  <1>n. /\ State /\ Control /\ RunInv /\ NameInv /\ pc = "name"
        /\ mine # None /\ runs[mine] # "absent" /\ copy.name # mine
    BY Grouped DEF NameRun, At, RunInv, NameInv
  <1> DEFINE named == [copy EXCEPT !.name = mine]
  <1>1. Sound(named) /\ named.name = mine
    BY <1>n, OutcomeTasks
  <1>2. PatchTask(copy, named) /\ base' = copy
    BY DEF NameRun, Baseline
  <1> HIDE DEF named
  <1>3. /\ task' \in {task, StatusPatch(copy, named)}
        /\ copy' \in {named, StatusPatch(copy, named)}
        /\ Sound(StatusPatch(copy, named))
    BY <1>n, <1>1, <1>2, PatchTaskSound DEF State
  <1>4. copy'.name = mine
    BY <1>n, <1>1, <1>3, PatchedTask DEF State, Sound
  <1>5. UNCHANGED <<now, runs, cache, request, mine, failed, counters>> /\ pc' = "turn"
    BY DEF NameRun
  <1>6. State'
    BY <1>n, <1>1, <1>2, <1>3, <1>5 DEF State, Sound, Created
  <1>7. served' \subseteq Times
    BY <1>n DEF NameRun, Control
  <1>8. Control' /\ RunInv' /\ NameInv'
    BY <1>n, <1>2, <1>4, <1>5, <1>7 DEF Control, RunInv, NameInv, WorkPC, counters
  <1> QED BY <1>6, <1>8, Grouped

LEMMA OutcomeStep ==
  ASSUME TypeOK, Inv, RecordOutcome \/ RecordSkip
  PROVE  TypeOK' /\ Inv'
  <1>n. State /\ Control /\ RunInv /\ NameInv
    BY Grouped
  <1>1. UNCHANGED <<now, runs, cache, served, counters>>
    BY DEF RecordOutcome, RecordSkip
  <1>2. CASE RecordOutcome
    <2>1. PICK status \in {"Success", "Failed"} :
            Settle(base, [copy EXCEPT !.lastRun = now, !.status = status])
      BY <1>2 DEF RecordOutcome
    <2>2. Sound([copy EXCEPT !.lastRun = now, !.status = status])
      BY <1>n, OutcomeTasks
    <2> QED BY <1>n, <1>1, <2>1, <2>2, SettleStep DEF State
  <1>3. CASE RecordSkip
    <2>1. mine # None /\ runs[mine] # "absent"
      BY <1>n, <1>3 DEF RecordSkip, At, RunInv
    <2>2. Sound([copy EXCEPT !.lastRun = now, !.name = mine, !.status = "Failed"])
      BY <1>n, <2>1, OutcomeTasks
    <2> QED BY <1>n, <1>1, <1>3, <2>2, SettleStep DEF State, RecordSkip
  <1> QED BY <1>2, <1>3

LEMMA ClearStep ==
  ASSUME TypeOK, Inv, NEW done \in BOOLEAN, Clear(done)
  PROVE  TypeOK' /\ Inv'
  <1>n. State /\ Control
    BY Grouped
  <1>1. /\ UNCHANGED <<now, runs, cache, served, counters>> /\ Done
        /\ task' = task \/ task' = [task EXCEPT !.manual = None]
    BY DEF Clear
  <1>2. Sound(task)'
    BY <1>n, <1>1 DEF State, Sound, Created, Tasks
  <1>3. Sound(cache)'
    BY <1>n, <1>1 DEF State, Sound, Created
  <1> QED BY <1>n, <1>1, <1>2, <1>3, Returned DEF Control, counters

LEMMA StepKeeps == TypeOK /\ Inv /\ [Next]_vars => TypeOK' /\ Inv'
  <1> SUFFICES ASSUME TypeOK, Inv, [Next]_vars PROVE TypeOK' /\ Inv'
    OBVIOUS
  <1>1. CASE CreateRun("create", "mark") \/ CreateRun("skip", "skipmark")
    BY <1>1, CreateRunStep
  <1>2. CASE Work /\ ~CreateRun("create", "mark") /\ ~CreateRun("skip", "skipmark")
    BY <1>2, QuietStep, ScheduleStep, ReportStep, NameRunStep, OutcomeStep, ClearStep DEF Work
  <1>3. CASE EndTurn
    BY <1>3, QuietStep
  <1>4. CASE Crash
    BY <1>4, CrashStep
  <1>5. CASE Tick \/ RequestRun \/ Toggle \/ Sync \/ UNCHANGED vars
    BY <1>5, EnvironmentStep
  <1> QED BY <1>1, <1>2, <1>3, <1>4, <1>5 DEF Next

LEMMA InvCorrect == Spec => [](TypeOK /\ Inv)
  <1> QED BY TypeInit, InvInit, StepKeeps, PTL DEF Spec

-----------------------------------------------------------------------------
(* What the scheduler promises.                                            *)

(* Every variable stays in its type, in every behaviour.                       *)
THEOREM SchedulerTypeCorrect == Spec => []TypeOK
  <1> QED BY InvCorrect, PTL

(* Only a step that holds a TaskRun without a report writes TaskRuns.          *)
LEMMA ReportStays ==
  ASSUME TypeOK, Inv, [Next]_vars, NEW t \in Times, runs[t] \in {"Completed", "Failed"}
  PROVE  runs'[t] = runs[t]
  <1>n. State /\ Control /\ RunInv
    BY Grouped
  <1>1. CASE CreateRun("create", "mark") \/ CreateRun("skip", "skipmark")
    BY <1>n, <1>1 DEF CreateRun, Creatable, Control
  <1>2. CASE MarkRunning \/ Report \/ MarkSkipped
    <2>1. mine # t
      BY <1>n, <1>2 DEF MarkRunning, Report, MarkSkipped, At, RunInv
    <2>2. UNCHANGED runs \/ \E phase : runs' = [runs EXCEPT ![mine] = phase]
      BY <1>2 DEF MarkRunning, Report, MarkSkipped, SkipRecorded, PatchRun
    <2> QED BY <1>n, <2>1, <2>2 DEF Control
  <1>3. CASE /\ ~CreateRun("create", "mark") /\ ~CreateRun("skip", "skipmark")
             /\ ~MarkRunning /\ ~Report /\ ~MarkSkipped
    BY <1>3 DEF Next, Work, Begin, PatchPaused, Schedule, Fire, NameRun, RecordOutcome,
       RecordSkip, Clear, EndTurn, Tick, RequestRun, Toggle, Sync, Crash, apiVars, vars
  <1> QED BY <1>1, <1>2, <1>3

(* A report is final: neither a later fire, nor a crash, nor a patch that is   *)
(* tried again rewrites it.                                                    *)
THEOREM ReportsAreFinalCorrect == Spec => ReportsAreFinal
  <1>1. TypeOK /\ Inv /\ [Next]_vars =>
          [\A t \in Times : runs[t] \in {"Completed", "Failed"} => runs'[t] = runs[t]]_vars
    BY ReportStays
  <1> QED BY <1>1, InvCorrect, PTL DEF Spec, ReportsAreFinal

(* The outcome's patch holds the name because its baseline does not.           *)
LEMMA OutcomeNames ==
  ASSUME TypeOK, Inv, [Next]_vars, At("outcome"), task'.lastRun # task.lastRun
  PROVE  task'.name = mine
  <1>n. State /\ Control /\ NameInv
    BY Grouped
  <1>1. CASE RecordOutcome
    <2>1. PICK status \in {"Success", "Failed"} :
            Settle(base, [copy EXCEPT !.lastRun = now, !.status = status])
      BY <1>1 DEF RecordOutcome
    <2> DEFINE to == [copy EXCEPT !.lastRun = now, !.status = status]
    <2>2. to \in Tasks /\ to.name = copy.name
      BY <1>n, OutcomeTasks DEF Sound
    <2>3. copy.name = mine /\ base.name # mine
      BY <1>n DEF At, NameInv
    <2> HIDE DEF to
    <2>4. task' = task \/ task' = StatusPatch(base, to)
      BY <2>1 DEF Settle, PatchTask, to
    <2>5. task' = StatusPatch(base, to)
      BY <2>4
    <2>6. StatusPatch(base, to).name = mine
      BY <1>n, <2>2, <2>3, PatchedTask DEF State, Sound
    <2> QED BY <2>5, <2>6
  <1>2. ASSUME RequestRun \/ Toggle PROVE FALSE
    <2>1. task' = [task EXCEPT !.manual = now] \/ task' = [task EXCEPT !.enabled = ~@]
      BY <1>2 DEF RequestRun, Toggle
    <2>2. task'.lastRun = task.lastRun
      BY <1>n, <2>1 DEF State, Sound, Tasks
    <2> QED BY <2>2
  <1>3. ASSUME Crash \/ Tick \/ Sync \/ EndTurn \/ UNCHANGED vars PROVE FALSE
    BY <1>3 DEF Crash, Tick, Sync, EndTurn, apiVars, vars
  <1>4. ASSUME Work, ~RecordOutcome PROVE FALSE
    BY <1>4 DEF At, Work, Begin, PatchPaused, Schedule, Fire, CreateRun, MarkRunning, NameRun,
       Report, MarkSkipped, RecordSkip, Clear
  <1> QED BY <1>1, <1>2, <1>3, <1>4 DEF Next

(* An outcome on the Task names its run, also when the patch that named the    *)
(* run at its start failed, and however old the version that was read is.      *)
THEOREM OutcomeNamesItsRunCorrect == Spec => OutcomeNamesItsRun
  <1>1. TypeOK /\ Inv /\ [Next]_vars =>
          [At("outcome") /\ task'.lastRun # task.lastRun => task'.name = mine]_vars
    BY OutcomeNames
  <1> QED BY <1>1, InvCorrect, PTL DEF Spec, OutcomeNamesItsRun

(* No occurrence is counted as handled by a skip without its Failed TaskRun.   *)
THEOREM SkipIsRecordedCorrect == Spec => SkipIsRecorded
  <1>1. TypeOK /\ Inv /\ [Next]_vars =>
          [At("skipoutcome") /\ task' # task => runs[mine] = "Failed"]_vars
    BY DEF Inv, RunInv, At
  <1> QED BY <1>1, InvCorrect, PTL DEF Spec, SkipIsRecorded

-----------------------------------------------------------------------------
(* The last run.                                                           *)

\* What the Task has as its last run is not in the future.
LastInv == task.lastRun # None => task.lastRun <= now

LEMMA LastInit == Init => LastInv
  <1> SUFFICES ASSUME Init PROVE LastInv
    OBVIOUS
  <1>1. PICK e \in BOOLEAN, s \in BOOLEAN : task = [Blank EXCEPT !.enabled = e, !.scheduled = s]
    BY Zenon DEF Init
  <1>2. task.lastRun = None
    BY <1>1 DEF Blank
  <1> QED BY <1>2 DEF LastInv

(* A patch leaves the last run alone, or writes the one of its new object.     *)
LEMMA PatchedLast ==
  ASSUME task \in Tasks, NEW from \in Tasks, NEW to \in Tasks,
         task' \in {task, StatusPatch(from, to)}
  PROVE  /\ task'.lastRun \in {task.lastRun, to.lastRun}
         /\ to.lastRun = from.lastRun => task'.lastRun = task.lastRun
  BY PatchedTask

(* The plans of a pause, of the cron and of a run's name are made from the     *)
(* same object as the patch, so that none of them is about the last run.       *)
LEMMA PlansKeepLast ==
  ASSUME TypeOK, Inv, PatchPaused \/ Schedule \/ NameRun
  PROVE  task'.lastRun = task.lastRun
  <1>n. State /\ Control /\ RunInv
    BY Grouped
  <1>1. ASSUME NEW to \in Tasks, to.lastRun = copy.lastRun,
               task' \in {task, StatusPatch(copy, to)}
        PROVE  task'.lastRun = task.lastRun
    BY <1>n, <1>1, PatchedLast DEF State, Sound
  <1>2. ASSUME NEW next \in Nat \cup {None},
               task' \in {task, StatusPatch(copy, [copy EXCEPT !.next = next])}
        PROVE  task'.lastRun = task.lastRun
    <2> DEFINE to == [copy EXCEPT !.next = next]
    <2>1. to \in Tasks /\ to.lastRun = copy.lastRun
      BY <1>n DEF State, Sound, Tasks
    <2> HIDE DEF to
    <2>2. task' \in {task, StatusPatch(copy, to)}
      BY <1>2 DEF to
    <2> QED BY <1>1, <2>1, <2>2
  <1>3. CASE PatchPaused
    <2>1. task' = task \/ task' \in {task, StatusPatch(copy, [copy EXCEPT !.next = None])}
      BY <1>3 DEF PatchPaused
    <2> QED BY <1>2, <2>1
  <1>4. CASE Schedule
    <2> DEFINE next == NextAfter(IF copy.lastRun = None THEN 0 ELSE copy.lastRun)
    <2>1. next \in Nat
      BY <1>n, TaskFields, NextOccurrence, TimeAssumption DEF State, Sound, Times
    <2>2. task' = task \/ task' \in {task, StatusPatch(copy, [copy EXCEPT !.next = next])}
      BY <1>4 DEF Schedule, PatchTask
    <2> HIDE DEF next
    <2> QED BY <1>2, <2>1, <2>2
  <1>5. CASE NameRun
    <2> DEFINE to == [copy EXCEPT !.name = mine]
    <2>1. to \in Tasks /\ to.lastRun = copy.lastRun
      BY <1>n, <1>5 DEF NameRun, At, RunInv, State, Control, Sound, Tasks
    <2>2. task' \in {task, StatusPatch(copy, to)}
      BY <1>5 DEF NameRun, PatchTask
    <2> HIDE DEF to
    <2> QED BY <1>1, <2>1, <2>2
  <1> QED BY <1>3, <1>4, <1>5

(* An outcome writes the time it is written at.                                *)
LEMMA OutcomeIsNow ==
  ASSUME TypeOK, Inv, RecordOutcome \/ RecordSkip
  PROVE  task'.lastRun \in {task.lastRun, now} /\ now' = now
  <1>n. State /\ Control /\ RunInv
    BY Grouped
  <1>1. ASSUME NEW from, Sound(from), NEW to, Sound(to), to.lastRun = now, Settle(from, to)
        PROVE  task'.lastRun \in {task.lastRun, now}
    <2>1. task' \in {task, StatusPatch(from, to)}
      BY <1>1 DEF Settle, PatchTask
    <2> QED BY <1>n, <1>1, <2>1, PatchedLast DEF State, Sound
  <1>2. CASE RecordOutcome
    <2> DEFINE status == IF failed THEN "Failed" ELSE "Success"
    <2>1. Settle(base, [copy EXCEPT !.lastRun = now, !.status = status])
      BY <1>2 DEF RecordOutcome
    <2>s. status \in {"Success", "Failed"}
      OBVIOUS
    <2> HIDE DEF status
    <2> DEFINE to == [copy EXCEPT !.lastRun = now, !.status = status]
    <2>2. Sound(to) /\ to.lastRun = now
      BY <1>n, <2>s, OutcomeTasks
    <2> HIDE DEF to
    <2>3. Settle(base, to)
      BY <2>1 DEF to
    <2> QED BY <1>n, <1>1, <1>2, <2>2, <2>3 DEF State, RecordOutcome
  <1>3. CASE RecordSkip
    <2> DEFINE to == [copy EXCEPT !.lastRun = now, !.name = mine, !.status = "Failed"]
    <2>1. mine # None /\ runs[mine] # "absent"
      BY <1>n, <1>3 DEF RecordSkip, At, RunInv
    <2>2. Sound(to)
      BY <1>n, <2>1, OutcomeTasks
    <2>3. to.lastRun = now
      BY <1>n DEF State, Sound, Tasks
    <2>4. Settle(copy, to)
      BY <1>3 DEF RecordSkip
    <2> HIDE DEF to
    <2> QED BY <1>n, <1>1, <1>3, <2>2, <2>3, <2>4 DEF State, RecordSkip
  <1> QED BY <1>2, <1>3

LEMMA LastMoves ==
  ASSUME TypeOK, Inv, [Next]_vars
  PROVE  /\ task'.lastRun \in {task.lastRun, now}
         /\ now' = now \/ (now' = now + 1 /\ task' = task)
  <1>n. State
    BY Grouped
  <1>1. CASE PatchPaused \/ Schedule \/ NameRun
    BY <1>1, PlansKeepLast DEF PatchPaused, Schedule, NameRun
  <1>2. CASE RecordOutcome \/ RecordSkip
    BY <1>2, OutcomeIsNow
  <1>3. CASE RequestRun \/ Toggle \/ \E done \in BOOLEAN : Clear(done)
    <2>1. /\ now' = now
          /\ \/ task' = task \/ task' = [task EXCEPT !.manual = now]
             \/ task' = [task EXCEPT !.enabled = ~@] \/ task' = [task EXCEPT !.manual = None]
      BY <1>3 DEF RequestRun, Toggle, Clear
    <2>2. task'.lastRun = task.lastRun
      BY <1>n, <2>1 DEF State, Sound, Tasks
    <2> QED BY <2>1, <2>2
  <1>4. CASE Tick
    BY <1>4 DEF Tick
  <1>5. CASE Crash \/ Sync \/ EndTurn \/ UNCHANGED vars
    BY <1>5 DEF Crash, Sync, EndTurn, apiVars, vars
  <1>6. CASE Work /\ ~PatchPaused /\ ~Schedule /\ ~NameRun /\ ~RecordOutcome /\ ~RecordSkip
             /\ ~\E done \in BOOLEAN : Clear(done)
    BY <1>6 DEF Work, Begin, Fire, CreateRun, MarkRunning, Report, MarkSkipped, apiVars
  <1> QED BY <1>1, <1>2, <1>3, <1>4, <1>5, <1>6 DEF Next

LEMMA LastStep ==
  ASSUME TypeOK, Inv, LastInv, [Next]_vars
  PROVE  /\ LastInv'
         /\ task'.lastRun # task.lastRun =>
              task'.lastRun # None /\ (task.lastRun = None \/ task.lastRun < task'.lastRun)
  <1>1. now \in Nat /\ None \notin Nat /\ task.lastRun \in Nat \cup {None}
    BY TaskFields, TimeAssumption DEF TypeOK, Times
  <1>2. /\ task'.lastRun \in {task.lastRun, now}
        /\ now' = now \/ (now' = now + 1 /\ task' = task)
    BY LastMoves
  <1>3. task.lastRun # None => task.lastRun <= now
    BY DEF LastInv
  <1>4. task'.lastRun # None => task'.lastRun <= now'
    BY <1>1, <1>2, <1>3
  <1> QED BY <1>1, <1>2, <1>3, <1>4 DEF LastInv

(* The last run on the Task never goes back, whatever old version of the Task  *)
(* the patch of a pause, a schedule, a name or an outcome was computed from.   *)
THEOREM LastRunAdvancesCorrect == Spec => LastRunAdvances
  <1>1. TypeOK /\ Inv /\ LastInv /\ [Next]_vars =>
          /\ LastInv'
          /\ [task'.lastRun # task.lastRun =>
                task'.lastRun # None
                /\ (task.lastRun = None \/ task.lastRun < task'.lastRun)]_vars
    BY LastStep
  <1> QED BY <1>1, LastInit, InvCorrect, PTL DEF Spec, LastRunAdvances
=============================================================================
