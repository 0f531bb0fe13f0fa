------------------------------ MODULE Scheduler ------------------------------
(***************************************************************************)
(* The task scheduler of internal/scheduler/scheduler.go, for one Task:    *)
(* the API that marks manual runs and pauses the Task, the API server that *)
(* holds the Task and its TaskRuns, the manager's cache from which         *)
(* Reconcile reads, and the one worker that reconciles.                    *)
(*                                                                         *)
(* A step of the worker ends at a call to the API server or to the agent.  *)
(* A write can fail with its effect done or not; the operator can crash at *)
(* every step.  The cache holds some earlier version of the Task.          *)
(*                                                                         *)
(* Time is counted in the seconds that name TaskRuns.  Reconcile runs on a *)
(* watch event, on its own requeue and on the manager's resync, so it may  *)
(* run at any time.  Templates, prompts and revisions are left out: that   *)
(* the owner has no instance or the prompt is blank is a choice of `Fire`. *)
(***************************************************************************)
EXTENDS Naturals

CONSTANTS
    None,
    MaxTime,    \* bound on the clock
    Period,     \* seconds between two occurrences of the cron expression
    MaxCrashes, \* bound on how often the operator crashes
    MaxEdits    \* bound on how often users pause, resume or run the Task

ASSUME TimeAssumption ==
    /\ MaxTime \in Nat
    /\ Period \in Nat \ {0}
    /\ MaxCrashes \in Nat /\ MaxEdits \in Nat
    /\ None \notin Nat

VARIABLES
    now,        \* the clock
    task,       \* the Task on the API server
    cache,      \* the version of it that the manager's cache holds
    runs,       \* the phase of the TaskRun named after each second
    pc,         \* where the worker is in Reconcile
    request,    \* the manual run it fires, None for an occurrence of the cron
    copy,       \* its local Task object
    base,       \* the baseline its patches of the outcome are computed from
    mine,       \* the TaskRun it writes
    failed,     \* the turn it ran failed
    served,     \* the manual runs whose turns have begun
    crashes,    \* how often the operator crashed
    edits       \* how often users edited the Task

counters == <<crashes, edits>>
apiVars  == <<now, task, runs>>
workVars == <<pc, request, copy, base, mine, failed>>
vars     == <<apiVars, cache, workVars, served, counters>>

Times  == 0..MaxTime
Phases == {"absent", "Pending", "Running", "Completed", "Failed"}
WorkPC == {"idle", "paused", "schedule", "fire", "create", "mark", "name", "turn",
           "report", "outcome", "skip", "skipmark", "skipoutcome", "clear"}

\* `manual` is the annotation's timestamp; `scheduled` that the spec has a cron.
Tasks == [manual : Times \cup {None}, enabled : BOOLEAN, scheduled : BOOLEAN,
          lastRun : Times \cup {None}, name : Times \cup {None},
          status : {"none", "Success", "Failed"}, next : Nat \cup {None}]
Blank == [manual |-> None, enabled |-> FALSE, scheduled |-> FALSE,
          lastRun |-> None, name |-> None, status |-> "none", next |-> None]
StatusFields == {"lastRun", "name", "status", "next"}

\* Every variable is in its type.
TypeOK ==
    /\ now \in Times
    /\ task \in Tasks /\ cache \in Tasks /\ copy \in Tasks /\ base \in Tasks
    /\ runs \in [Times -> Phases]
    /\ pc \in WorkPC
    /\ request \in Times \cup {None}
    /\ mine \in Times \cup {None}
    /\ pc \in {"mark", "name", "turn", "report", "outcome"} => mine # None
    /\ pc = "clear" => request # None
    /\ failed \in BOOLEAN
    /\ served \subseteq Times
    /\ crashes \in 0..MaxCrashes
    /\ edits \in 0..MaxEdits

Init ==
    /\ now = 0
    /\ \E e, s \in BOOLEAN : task = [Blank EXCEPT !.enabled = e, !.scheduled = s]
    /\ cache = task
    /\ copy = Blank /\ base = Blank
    /\ runs = [t \in Times |-> "absent"]
    /\ pc = "idle"
    /\ request = None
    /\ mine = None
    /\ failed = FALSE
    /\ served = {}
    /\ crashes = 0 /\ edits = 0

At(here) == pc = here

-----------------------------------------------------------------------------
(* The API process, the API server and its watch.                          *)

Tick ==
    /\ now < MaxTime
    /\ now' = now + 1
    /\ UNCHANGED <<task, runs, cache, workVars, served, counters>>

\* POST /tasks/{id}/run.
RequestRun ==
    /\ edits < MaxEdits
    /\ edits' = edits + 1
    /\ task' = [task EXCEPT !.manual = now]
    /\ UNCHANGED <<now, runs, cache, workVars, served, crashes>>

\* POST /tasks/{id}/toggle.
Toggle ==
    /\ edits < MaxEdits
    /\ edits' = edits + 1
    /\ task' = [task EXCEPT !.enabled = ~@]
    /\ UNCHANGED <<now, runs, cache, workVars, served, crashes>>

\* The watch brings the cache up to date.
Sync ==
    /\ cache' = task
    /\ UNCHANGED <<apiVars, workVars, served, counters>>

\* A mutant: the whole status is written, as an Update would.
WholeStatus(from, to) == [f \in DOMAIN task |-> IF f \in StatusFields THEN to[f] ELSE task[f]]

\* client.MergeFrom on the status subresource: only the fields in which the
\* object differs from the baseline are written.
StatusPatch(from, to) ==
    [f \in DOMAIN task |-> IF f \in StatusFields /\ to[f] # from[f] THEN to[f] ELSE task[f]]

\* Status().Patch of the Task.  The reply replaces the local object; an error
\* leaves the object as it was built, and is only logged.
PatchTask(from, to) ==
    \/ /\ task' = StatusPatch(from, to)
       /\ copy' = task'
    \/ /\ task' \in {task, StatusPatch(from, to)}
       /\ copy' = to

\* The same for the TaskRun.
PatchRun(phase) == runs' = [runs EXCEPT ![mine] = phase]

-----------------------------------------------------------------------------
(* Reconcile.                                                              *)

\* Reconcile returns: its locals are garbage.
Done ==
    /\ pc' = "idle"
    /\ request' = None
    /\ mine' = None
    /\ failed' = FALSE
    /\ copy' = Blank
    /\ base' = Blank

\* What Reconcile does with the version it reads; a Task that is only run by hand
\* leaves it nothing to do.
Branch(read) ==
    IF read.manual # None THEN "fire"
    ELSE IF ~read.enabled THEN "paused"
    ELSE IF read.scheduled THEN "schedule" ELSE "idle"

Begin ==
    /\ At("idle")
    /\ Branch(cache) # "idle"
    /\ pc' = Branch(cache)
    /\ copy' = cache
    /\ request' = cache.manual
    /\ UNCHANGED <<apiVars, cache, base, mine, failed, served, counters>>

\* patchPaused: a paused Task has no next run.
PatchPaused ==
    /\ At("paused")
    /\ IF copy.next = None THEN UNCHANGED task
       ELSE task' \in {task, StatusPatch(copy, [copy EXCEPT !.next = None])}
    /\ Done
    /\ UNCHANGED <<now, runs, cache, served, counters>>

\* The first occurrence strictly after time t.
NextAfter(t) == (t \div Period + 1) * Period

\* nextDue and patchNextRun: occurrences are counted from the last run, or from
\* the creation of the Task.
Schedule ==
    /\ At("schedule")
    /\ LET next == NextAfter(IF copy.lastRun = None THEN 0 ELSE copy.lastRun) IN
         \/ /\ next <= now
            /\ \/ copy.next = next /\ UNCHANGED <<task, copy>>
               \/ copy.next # next /\ PatchTask(copy, [copy EXCEPT !.next = next])
            /\ pc' = "fire"
            /\ UNCHANGED <<request, base, mine, failed>>
         \/ /\ next > now
            /\ task' \in {task, StatusPatch(copy, [copy EXCEPT !.next = next])}
            /\ Done
    /\ UNCHANGED <<now, runs, cache, served, counters>>

-----------------------------------------------------------------------------
(* fire.                                                                   *)

\* A mutant: a manual run that could not be executed keeps its annotation.
KeepFailed(err) ==
    IF request # None /\ ~err
    THEN pc' = "clear" /\ UNCHANGED <<request, copy, base, mine, failed>>
    ELSE Done

\* What Reconcile does after fire, which logs the error `err` stands for.
FireReturns(err) ==
    IF request # None
    THEN pc' = "clear" /\ UNCHANGED <<request, copy, base, mine, failed>>
    ELSE Done

\* The owner may have no instance, or the prompt be blank.
Fire ==
    /\ At("fire")
    /\ pc' \in {"create", "skip"}
    /\ UNCHANGED <<apiVars, cache, request, copy, base, mine, failed, served, counters>>

\* A mutant: a TaskRun that exists already is adopted.
Adoptable == {now}

\* The TaskRuns a fire may create: the one named after this second, once.
Creatable == {t \in {now} : runs[t] = "absent"}

\* Create of the TaskRun; a status cannot be created with it.
CreateRun(here, next) ==
    /\ At(here)
    /\ \/ \E t \in Creatable :
             /\ runs' = [runs EXCEPT ![t] = IF @ = "absent" THEN "Pending" ELSE @]
             /\ mine' = t
             /\ pc' = next
             /\ UNCHANGED <<request, copy, base, failed>>
       \/ /\ runs' \in {runs} \cup {[runs EXCEPT ![t] = "Pending"] : t \in Creatable}
          /\ FireReturns(TRUE)
    /\ UNCHANGED <<now, task, cache, served, counters>>

MarkRunning ==
    /\ At("mark")
    /\ PatchRun("Running") \/ UNCHANGED runs
    /\ pc' = "name"
    /\ UNCHANGED <<now, task, cache, request, copy, base, mine, failed, served, counters>>

\* A mutant: the baseline of the outcome is taken after the name is set.
NamedBaseline == [copy EXCEPT !.name = mine]

\* The baseline both patches of the Task are computed from.
Baseline == copy

\* The Task names the run before it executes; then the turn begins.
NameRun ==
    /\ At("name")
    /\ base' = Baseline
    /\ PatchTask(copy, [copy EXCEPT !.name = mine])
    /\ pc' = "turn"
    /\ served' = served \cup ({request} \ {None})
    /\ UNCHANGED <<now, runs, cache, request, mine, failed, counters>>

\* RunTask returns.
EndTurn ==
    /\ At("turn")
    /\ failed' \in BOOLEAN
    /\ pc' = "report"
    /\ UNCHANGED <<apiVars, cache, request, copy, base, mine, served, counters>>

Report ==
    /\ At("report")
    /\ PatchRun(IF failed THEN "Failed" ELSE "Completed") \/ UNCHANGED runs
    /\ pc' = "outcome"
    /\ UNCHANGED <<now, task, cache, request, copy, base, mine, failed, served, counters>>

\* The last patch of a fire; an occurrence of the cron ends with it.
Settle(from, to) ==
    \/ /\ request = None
       /\ task' \in {task, StatusPatch(from, to)}
       /\ Done
    \/ /\ request # None
       /\ PatchTask(from, to)
       /\ pc' = "clear"
       /\ UNCHANGED <<request, base, mine, failed>>

\* The Task's LastRunTime and LastStatus, and again its LastTaskRunName.
RecordOutcome ==
    /\ At("outcome")
    /\ LET status == IF failed THEN "Failed" ELSE "Success" IN
         Settle(base, [copy EXCEPT !.lastRun = now, !.status = status])
    /\ UNCHANGED <<now, runs, cache, served, counters>>

-----------------------------------------------------------------------------
(* recordSkippedRun, and the end of a manual run.                          *)

\* A mutant: a skip whose record failed counts as handled all the same.
SkipUnrecorded ==
    /\ PatchRun("Failed") \/ UNCHANGED runs
    /\ pc' = "skipoutcome"
    /\ UNCHANGED <<request, copy, base, mine, failed>>

\* The Failed status; without it the occurrence is not handled.
SkipRecorded ==
    \/ /\ PatchRun("Failed")
       /\ pc' = "skipoutcome"
       /\ UNCHANGED <<request, copy, base, mine, failed>>
    \/ /\ PatchRun("Failed") \/ UNCHANGED runs
       /\ FireReturns(TRUE)

MarkSkipped ==
    /\ At("skipmark")
    /\ SkipRecorded
    /\ UNCHANGED <<now, task, cache, served, counters>>

RecordSkip ==
    /\ At("skipoutcome")
    /\ Settle(copy, [copy EXCEPT !.lastRun = now, !.name = mine, !.status = "Failed"])
    /\ UNCHANGED <<now, runs, cache, served, counters>>

\* The merge patch that deletes the annotation, whatever its value is by now;
\* nothing is written when the local object does not have it any more.
Clear(done) ==
    /\ At("clear")
    /\ task' = IF done /\ copy.manual # None THEN [task EXCEPT !.manual = None] ELSE task
    /\ Done
    /\ UNCHANGED <<now, runs, cache, served, counters>>

-----------------------------------------------------------------------------
\* The operator restarts, with a cache that has just been listed.
Crash ==
    /\ crashes < MaxCrashes
    /\ crashes' = crashes + 1
    /\ cache' = task
    /\ Done
    /\ UNCHANGED <<apiVars, served, edits>>

Work ==
    \/ Begin \/ PatchPaused \/ Schedule \/ Fire
    \/ CreateRun("create", "mark") \/ CreateRun("skip", "skipmark")
    \/ MarkRunning \/ NameRun \/ Report \/ RecordOutcome
    \/ MarkSkipped \/ RecordSkip
    \/ \E done \in BOOLEAN : Clear(done)

Next == Work \/ EndTurn \/ Tick \/ RequestRun \/ Toggle \/ Sync \/ Crash

Spec == Init /\ [][Next]_vars

\* The worker runs, its requeue comes, the watch delivers and the API server
\* takes a write that is tried again and again.  That a turn ends is not promised.
FairSpec ==
    /\ Spec
    /\ WF_vars(Work)
    /\ WF_vars(Sync)
    /\ SF_vars(Clear(TRUE))

-----------------------------------------------------------------------------
(* Properties.                                                             *)

\* The report of a run is final: no later fire, restart or retry rewrites a
\* TaskRun that has completed or failed.
ReportsAreFinal ==
    [][\A t \in Times : runs[t] \in {"Completed", "Failed"} => runs'[t] = runs[t]]_vars

\* An outcome on the Task names the run it is the outcome of, also when the patch
\* that named the run at its start failed.
OutcomeNamesItsRun ==
    [][At("outcome") /\ task'.lastRun # task.lastRun => task'.name = mine]_vars

\* An occurrence is not counted as handled by a skip that left no Failed TaskRun.
SkipIsRecorded ==
    [][At("skipoutcome") /\ task' # task => runs[mine] = "Failed"]_vars

\* The last run on the Task never goes back, nor is it forgotten: the occurrences are
\* counted from it, and a patch computed from an old version of the Task, by a fire or a
\* pause that read the cache before the last outcome, leaves it alone.
LastRunAdvances ==
    [][task'.lastRun # task.lastRun =>
         task'.lastRun # None /\ (task.lastRun = None \/ task.lastRun < task'.lastRun)]_vars

\* A manual run that was accepted leads to a turn, or is taken off the Task.
RequestIsActedOn ==
    task.manual # None ~> task.manual = None \/ At("turn")

\* The annotation's value is an idempotency key: the scheduler "fires the task
\* once and removes the annotation".
ManualRunFiresOnce ==
    [][At("name") /\ pc' = "turn" => request \notin served]_vars
=============================================================================
