------------------------------ MODULE Background ------------------------------
(***************************************************************************)
(* What outlives a request: scheduled jobs (internal/service/job.go and    *)
(* job_scheduler.go), the pools of manual runs and operation logs          *)
(* (pkg/asyncx, internal/middleware/operlog.go), and the ordered shutdown  *)
(* of cmd/server/main.go.                                                  *)
(*                                                                         *)
(* The handlers that write jobs hold jobWriteMu over the database write    *)
(* and the change of the cron entries.  A run is one call of execute, with *)
(* the copy of the job its entry or its manual start was made from; the    *)
(* task function may outlive the call when its deadline passes.            *)
(*                                                                         *)
(* A job's name, arguments and times are left out: a definition d in       *)
(* Targets stands for its invoke target and cron expression together.      *)
(***************************************************************************)
EXTENDS Naturals, Sequences, FiniteSets

CONSTANTS
    Jobs, Targets,
    Resolvable,    \* the definitions whose task is registered
    Schedulable,   \* of those, the ones whose cron expression translates
    None,
    Unborn, Deleted,   \* in place of a row: an id the database has not given out yet, or gave to a row now deleted
    Beginnings,    \* the contents of sys_job at the start
    Workers, Capacity,
    MaxEvents,     \* bound: write requests and runs started by cron
    MaxFaults      \* bound: failing database calls

ASSUME TargetsAssumption == Schedulable \subseteq Resolvable /\ Resolvable \subseteq Targets
\* NewPool clamps both to one.
ASSUME PoolAssumption == Workers \in Nat \ {0} /\ Capacity \in Nat \ {0}

VARIABLES
    stage,      \* of the process, from "loading" to "closed"
    late,       \* the stages of the shutdown that timed out
    table,      \* sys_job
    entries,    \* the cron entries: job -> the copy it runs, or None
    cronOn,     \* cron fires
    jobMu,      \* jobWriteMu: its holder
    handler,    \* the requests that write jobs, numbered as they get the lock
    suspect,    \* jobs whose last write took effect but was reported failed (history)
    run,        \* the calls of execute, in the order they were asked for
    running,    \* jobScheduler.running
    manualQueue, manualBusy, manualClosed,    \* manualJobPool, of runs
    logQueue, logBusy, logClosed,             \* operLogPool, of requests
    logged,     \* requests whose operation log was written, or tried
    faults

jobVars == <<table, entries, jobMu, suspect>>
manualVars == <<manualQueue, manualBusy, manualClosed>>
logVars == <<logQueue, logBusy, logClosed, logged>>
stageVars == <<stage, late, cronOn>>
vars == <<stageVars, jobVars, handler, run, running, manualVars, logVars, faults>>

ManualPool == INSTANCE Pool WITH queue <- manualQueue, busy <- manualBusy, closed <- manualClosed
LogPool == INSTANCE Pool WITH queue <- logQueue, busy <- logBusy, closed <- logClosed

Statuses == {"normal", "pause"}
Row == [status: Statuses, concurrent: {"allow", "forbid"}, target: Targets]
Exists(j) == table[j] \notin {Unborn, Deleted}

ASSUME MarkersAssumption == {None, Unborn, Deleted} \cap (Row \cup Nat) = {} /\ Unborn # Deleted
ASSUME BoundsAssumption == MaxEvents \in Nat /\ MaxFaults \in Nat
ASSUME BeginningsAssumption == Beginnings \subseteq [Jobs -> Row \cup {Unborn}]

\* How the entries should follow the table: reschedule loads a job whose
\* status is normal, if its definition allows it.
Wanted(row) == IF row \in Row /\ row.status = "normal" /\ row.target \in Schedulable THEN row ELSE None

-----------------------------------------------------------------------------
(* Requests *)

Operations == {"Create", "Update", "ChangeStatus", "RunOnce", "Delete"}
Requests == 1..MaxEvents
\* In the service's function, and in the middleware before and after it.
Working == [pc: {"select", "save", "apply", "submit"},
            op: Operations, ids: SUBSET Jobs, row: Row \cup {None}, status: Statuses]
At(where) == [pc |-> where]
Received == {h \in Requests : handler[h] # At("none")}
InFlight == {h \in Received : handler[h] # At("done")}

MoreEvents == Cardinality(Received) + Cardinality({r \in DOMAIN run : run[r].via = "cron"}) < MaxEvents

TheJob(h) == CHOOSE j \in handler[h].ids : TRUE

\* prepareJobForCreate forces the pause; validateJob refuses a definition
\* that cannot be loaded.
Asked(op, row, status) ==
    /\ IF op \in {"Create", "Update"} THEN row \in Row /\ row.target \in Schedulable ELSE row = None
    /\ op = "Create" => row.status = "pause"
    /\ op # "ChangeStatus" => status = "pause"

\* Mutant: the service forgets jobWriteMu.
EnterUnlocked(h, op, ids, row, status) ==
    /\ stage = "serving" /\ MoreEvents
    /\ h = Cardinality(Received) + 1
    /\ Asked(op, row, status)
    /\ IF op = "Delete" THEN ids # {} ELSE \E j \in Jobs : ids = {j}
    /\ op = "Create" => \A j \in ids : table[j] = Unborn
    /\ op # "Create" => \A j \in ids : table[j] # Unborn
    /\ handler' = [handler EXCEPT ![h] =
         [pc |-> IF op \in {"Create", "Delete"} THEN "save" ELSE "select",
          op |-> op, ids |-> ids, row |-> row, status |-> status]]
    /\ UNCHANGED <<stageVars, jobVars, run, running, manualVars, logVars, faults>>

\* The handler enters its critical section.
Enter(h, op, ids, row, status) ==
    /\ stage = "serving" /\ MoreEvents
    /\ h = Cardinality(Received) + 1 /\ jobMu = None
    /\ Asked(op, row, status)
    /\ IF op = "Delete" THEN ids # {} ELSE \E j \in Jobs : ids = {j}
    /\ op = "Create" => \A j \in ids : table[j] = Unborn
    /\ op # "Create" => \A j \in ids : table[j] # Unborn
    /\ jobMu' = h
    /\ handler' = [handler EXCEPT ![h] =
         [pc |-> IF op \in {"Create", "Delete"} THEN "save" ELSE "select",
          op |-> op, ids |-> ids, row |-> row, status |-> status]]
    /\ UNCHANGED <<stageVars, table, entries, suspect, run, running, manualVars, logVars, faults>>

\* The deferred unlock, and back to the operation log middleware.
Leave(h) ==
    /\ handler' = [handler EXCEPT ![h] = At("audit")]
    /\ jobMu' = None

Fail == faults < MaxFaults /\ faults' = faults + 1

\* SelectJobByID.  ChangeJobStatus goes on with the row it read, RunJobOnce
\* with that row as the copy to run.
Select(h) ==
    /\ handler[h].pc = "select"
    /\ LET row == table[TheJob(h)] IN
       \/ /\ \/ Fail
             \/ ~Exists(TheJob(h)) /\ UNCHANGED faults
             \/ handler[h].op = "RunOnce" /\ Exists(TheJob(h)) /\ row.target \notin Resolvable
                  /\ UNCHANGED faults
          /\ Leave(h)
       \/ /\ Exists(TheJob(h))
          /\ handler[h].op = "RunOnce" => row.target \in Resolvable
          /\ handler' = [handler EXCEPT
               ![h].pc = IF handler[h].op = "RunOnce" THEN "submit" ELSE "save",
               ![h].row = CASE handler[h].op = "Update" -> handler[h].row
                            [] handler[h].op = "ChangeStatus" -> [row EXCEPT !.status = handler[h].status]
                            [] OTHER -> row]
          /\ UNCHANGED <<jobMu, faults>>
    /\ UNCHANGED <<stageVars, table, entries, suspect, run, running, manualVars, logVars>>

\* What the statement of InsertJob, UpdateJob, UpdateJobStatus or
\* DeleteJobByIDs does to a row; updating a missing row changes nothing.
Saved(h, j) ==
    CASE handler[h].op = "Create" -> handler[h].row
      [] handler[h].op = "Delete" -> Deleted
      [] handler[h].op = "Update" -> IF Exists(j) THEN handler[h].row ELSE table[j]
      [] OTHER -> IF Exists(j) THEN [table[j] EXCEPT !.status = handler[h].status] ELSE table[j]

\* The statement takes effect or not, and the handler hears so or hears of
\* an error, which ends it.
Save(h) ==
    /\ handler[h].pc = "save"
    /\ \E effect, ok \in BOOLEAN :
        /\ ok => effect
        /\ IF ok THEN UNCHANGED faults ELSE Fail
        /\ table' = [j \in Jobs |-> IF effect /\ j \in handler[h].ids THEN Saved(h, j) ELSE table[j]]
        /\ suspect' = IF effect /\ ~ok THEN suspect \cup handler[h].ids ELSE suspect
        /\ IF ok THEN handler' = [handler EXCEPT ![h].pc = "apply"] /\ UNCHANGED jobMu
                 ELSE Leave(h)
    /\ UNCHANGED <<stageVars, entries, run, running, manualVars, logVars>>

\* reschedule: a row that cannot be loaded is reported, and the entry stays.
Reschedule(j, row) ==
    IF row.status = "normal" /\ row.target \notin Schedulable
    THEN UNCHANGED entries
    ELSE entries' = [entries EXCEPT ![j] = Wanted(row)]

\* remove, one id after the other.
Remove(j) == entries' = [entries EXCEPT ![j] = None]

\* The cron entries follow the write, one job per step.
Apply(h) ==
    /\ handler[h].pc = "apply"
    /\ \E j \in handler[h].ids :
        /\ IF handler[h].op = "Delete" THEN Remove(j) ELSE Reschedule(j, handler[h].row)
        /\ suspect' = suspect \ {j}
        /\ IF handler[h].ids = {j} THEN Leave(h)
           ELSE handler' = [handler EXCEPT ![h].ids = @ \ {j}] /\ UNCHANGED jobMu
    /\ UNCHANGED <<stageVars, table, run, running, manualVars, logVars, faults>>

-----------------------------------------------------------------------------
(* Runs *)

RunPCs == {"queued", "fired", "begun", "waiting", "recording", "done"}

\* fn is the task function's goroutine; watched means that the call has
\* stopped waiting and left the release of the mark to a goroutine.
NewRun(j, row, via, pc) ==
    [job |-> j, row |-> row, via |-> via, pc |-> pc, fn |-> "none", watched |-> FALSE]

Active(r) == run[r].fn = "active"
Forbids(r) == run[r].row.concurrent = "forbid"

\* RunJobOnce: the copy goes to the pool, or the user hears that it is full.
SubmitRun(h) ==
    /\ handler[h].pc = "submit"
    /\ Leave(h)
    /\ \/ /\ ManualPool!Submit(Len(run) + 1)
          /\ run' = Append(run, NewRun(TheJob(h), handler[h].row, "pool", "queued"))
       \/ ~ManualPool!Admits /\ UNCHANGED <<run, manualVars>>
    /\ UNCHANGED <<stageVars, table, entries, suspect, running, logVars, faults>>

\* A pool worker calls execute.
TakeRun ==
    /\ stage # "closed"
    /\ ManualPool!Take
    /\ run' = [run EXCEPT ![Head(manualQueue)].pc = "fired"]
    /\ UNCHANGED <<stageVars, jobVars, handler, running, logVars, faults>>

\* The time of an entry has come: cron calls execute in a goroutine.
Fire(j) ==
    /\ cronOn /\ entries[j] # None
    /\ MoreEvents
    /\ run' = Append(run, NewRun(j, entries[j], "cron", "fired"))
    /\ UNCHANGED <<stageVars, jobVars, handler, running, manualVars, logVars, faults>>

\* execute returns: to cron, or to the pool worker.
Return(r) ==
    IF run[r].via = "pool" THEN ManualPool!Done(r) ELSE UNCHANGED manualVars

\* beginRun; a run that may not overlap is skipped.
BeginRun(r) ==
    /\ stage # "closed" /\ run[r].pc = "fired"
    /\ IF Forbids(r) /\ run[r].job \in running
       THEN run' = [run EXCEPT ![r].pc = "done"] /\ Return(r) /\ UNCHANGED running
       ELSE /\ run' = [run EXCEPT ![r].pc = "begun"]
            /\ running' = IF Forbids(r) THEN running \cup {run[r].job} ELSE running
            /\ UNCHANGED manualVars
    /\ UNCHANGED <<stageVars, jobVars, handler, logVars, faults>>

\* runStartedTaskWith adds to runWG and starts the function.
StartTask(r) ==
    /\ stage # "closed" /\ run[r].pc = "begun"
    /\ run' = [run EXCEPT ![r].pc = "waiting", ![r].fn = "active"]
    /\ UNCHANGED <<stageVars, jobVars, handler, running, manualVars, logVars, faults>>

\* The function returns, fails or panics (invokeTask recovers).
TaskReturns(r) ==
    /\ stage # "closed" /\ Active(r)
    /\ run' = [run EXCEPT ![r].fn = "returned"]
    /\ UNCHANGED <<stageVars, jobVars, handler, running, manualVars, logVars, faults>>

EndRun(r) == running' = IF Forbids(r) THEN running \ {run[r].job} ELSE running

ReceiveResult(r) ==
    /\ stage # "closed" /\ run[r].pc = "waiting" /\ run[r].fn = "returned"
    /\ EndRun(r)
    /\ run' = [run EXCEPT ![r].pc = "recording"]
    /\ UNCHANGED <<stageVars, jobVars, handler, manualVars, logVars, faults>>

\* Mutant: the mark is released when the deadline passes.
DeadlineReleases(r) ==
    /\ stage # "closed" /\ run[r].pc = "waiting"
    /\ EndRun(r)
    /\ run' = [run EXCEPT ![r].pc = "recording"]
    /\ UNCHANGED <<stageVars, jobVars, handler, manualVars, logVars, faults>>

\* Mutant: nobody releases the mark of a function whose call gave up.
DeadlineForgets(r) ==
    /\ stage # "closed" /\ run[r].pc = "waiting"
    /\ run' = [run EXCEPT ![r].pc = "recording"]
    /\ UNCHANGED <<stageVars, jobVars, handler, running, manualVars, logVars, faults>>

\* The deadline of JobExecuteTimeout: the call gives up, the mark stays.
DeadlinePasses(r) ==
    /\ stage # "closed" /\ run[r].pc = "waiting"
    /\ run' = [run EXCEPT ![r].pc = "recording", ![r].watched = TRUE]
    /\ UNCHANGED <<stageVars, jobVars, handler, running, manualVars, logVars, faults>>

\* The goroutine that waits for a function whose call gave up.
LateRelease(r) ==
    /\ stage # "closed" /\ run[r].watched /\ run[r].fn = "returned"
    /\ EndRun(r)
    /\ run' = [run EXCEPT ![r].watched = FALSE]
    /\ UNCHANGED <<stageVars, jobVars, handler, manualVars, logVars, faults>>

\* InsertJobLog, whose failure is only reported.
RecordRun(r) ==
    /\ stage # "closed" /\ run[r].pc = "recording"
    /\ run' = [run EXCEPT ![r].pc = "done"]
    /\ Return(r)
    /\ UNCHANGED <<stageVars, jobVars, handler, running, logVars, faults>>

-----------------------------------------------------------------------------
(* Operation logs *)

\* Mutant: a log the pool refuses is dropped.
AuditDropping(h) ==
    /\ handler[h].pc = "audit"
    /\ \/ LogPool!Submit(h)
       \/ ~LogPool!Admits /\ UNCHANGED <<logQueue, logBusy, logClosed>>
    /\ handler' = [handler EXCEPT ![h] = At("done")]
    /\ UNCHANGED <<stageVars, jobVars, run, running, manualVars, logged, faults>>

\* c.Next() has returned: the middleware queues the log, or writes it itself
\* when the pool refuses.
Audit(h) ==
    /\ handler[h].pc = "audit"
    /\ \/ /\ LogPool!Submit(h)
          /\ handler' = [handler EXCEPT ![h] = At("done")]
       \/ /\ ~LogPool!Admits
          /\ handler' = [handler EXCEPT ![h].pc = "writeLog"]
          /\ UNCHANGED <<logQueue, logBusy, logClosed>>
    /\ UNCHANGED <<stageVars, jobVars, run, running, manualVars, logged, faults>>

WriteLog(h) ==
    /\ handler[h].pc = "writeLog"
    /\ logged' = logged \cup {h}
    /\ handler' = [handler EXCEPT ![h] = At("done")]
    /\ UNCHANGED <<stageVars, jobVars, run, running, manualVars, logQueue, logBusy, logClosed, faults>>

TakeLog ==
    /\ stage # "closed"
    /\ LogPool!Take
    /\ UNCHANGED <<stageVars, jobVars, handler, run, running, manualVars, logged, faults>>

PoolWritesLog ==
    /\ stage # "closed"
    /\ \E h \in logBusy : LogPool!Done(h) /\ logged' = logged \cup {h}
    /\ UNCHANGED <<stageVars, jobVars, handler, run, running, manualVars, faults>>

-----------------------------------------------------------------------------
(* The process *)

Stages == {"loading", "serving", "http", "async", "callbacks", "tasks", "closed"}

StageStep(from, to) == stage = from /\ stage' = to
OnlyStage == UNCHANGED <<jobVars, handler, run, running, manualVars, logVars, faults>>

\* StartScheduler: a job that cannot be loaded is skipped, a failing query
\* ends the process.
StartScheduler ==
    /\ \/ /\ StageStep("loading", "serving")
          /\ entries' = [j \in Jobs |-> Wanted(table[j])]
          /\ cronOn' = TRUE
          /\ UNCHANGED faults
       \/ StageStep("loading", "closed") /\ Fail /\ UNCHANGED <<entries, cronOn>>
    /\ UNCHANGED <<late, table, jobMu, suspect, handler, run, running, manualVars, logVars>>

\* A signal, or the listener has failed: shutdownComponents begins.
Signal == StageStep("serving", "http") /\ UNCHANGED <<late, cronOn>> /\ OnlyStage

\* The first stage waits for the requests, and gives up after its timeout.
EndHTTP ==
    /\ StageStep("http", "async")
    /\ late' = IF InFlight = {} THEN late ELSE late \cup {"http"}
    /\ UNCHANGED cronOn /\ OnlyStage

\* shutdownAsyncWorkers closes the pools, each from a goroutine of its own.
CloseManualPool ==
    /\ stage = "async" /\ ManualPool!Close
    /\ UNCHANGED <<stageVars, jobVars, handler, run, running, logVars, faults>>
CloseLogPool ==
    /\ stage = "async" /\ LogPool!Close
    /\ UNCHANGED <<stageVars, jobVars, handler, run, running, manualVars, logged, faults>>

\* It waits for both to drain (and for the revocation queue, which is
\* RevocationQueue's); StopScheduler then stops cron.
EndAsync ==
    /\ StageStep("async", "callbacks")
    /\ manualClosed /\ logClosed
    /\ late' = IF ManualPool!Drained /\ LogPool!Drained THEN late ELSE late \cup {"async"}
    /\ cronOn' = FALSE
    /\ OnlyStage

\* The context cron.Stop returns: no callback is left.
CallbacksDone == \A r \in DOMAIN run : run[r].via = "cron" => run[r].pc = "done"
\* runWG is zero.
TasksDone == \A r \in DOMAIN run : ~Active(r)

EndCallbacks ==
    /\ StageStep("callbacks", "tasks") /\ CallbacksDone
    /\ UNCHANGED <<late, cronOn>> /\ OnlyStage

\* Mutant: StopScheduler waits for the callbacks only.
EndTasksAtOnce ==
    /\ StageStep("tasks", "closed")
    /\ UNCHANGED <<late, cronOn>> /\ OnlyStage

\* waitForRuns; then the database and Redis are closed and the process ends.
EndTasks ==
    /\ StageStep("tasks", "closed") /\ TasksDone
    /\ UNCHANGED <<late, cronOn>> /\ OnlyStage

\* Mutant: StopScheduler waits as long as it takes.
StopSchedulerWaits == FALSE

StopSchedulerTimesOut ==
    /\ StageStep("callbacks", "closed") \/ StageStep("tasks", "closed")
    /\ late' = late \cup {"scheduler"}
    /\ UNCHANGED cronOn /\ OnlyStage

-----------------------------------------------------------------------------
Init ==
    /\ stage = "loading" /\ late = {} /\ cronOn = FALSE
    /\ table \in Beginnings
    /\ entries = [j \in Jobs |-> None]
    /\ jobMu = None /\ suspect = {}
    /\ handler = [h \in Requests |-> At("none")]
    /\ run = <<>> /\ running = {}
    /\ ManualPool!NewPool /\ LogPool!NewPool
    /\ logged = {} /\ faults = 0

HandlerStep(h) ==
    /\ stage # "closed" /\ h \in InFlight
    /\ Select(h) \/ Save(h) \/ Apply(h) \/ SubmitRun(h) \/ Audit(h) \/ WriteLog(h)
RunStep(r) == BeginRun(r) \/ StartTask(r) \/ ReceiveResult(r) \/ DeadlinePasses(r) \/ LateRelease(r) \/ RecordRun(r)
PoolStep == TakeRun \/ TakeLog \/ PoolWritesLog
ShutdownStep == EndHTTP \/ CloseManualPool \/ CloseLogPool \/ EndAsync
                    \/ EndCallbacks \/ EndTasks \/ StopSchedulerTimesOut

Next ==
    \/ \E h \in Requests :
        \/ \E op \in Operations, ids \in SUBSET Jobs, row \in Row \cup {None}, status \in Statuses : Enter(h, op, ids, row, status)
        \/ HandlerStep(h)
    \/ \E j \in Jobs : Fire(j)
    \/ \E r \in DOMAIN run : RunStep(r) \/ TaskReturns(r)
    \/ PoolStep
    \/ StartScheduler \/ Signal \/ ShutdownStep

Spec == Init /\ [][Next]_vars

\* Goroutines run, deadlines pass and the stages of the shutdown end; cron,
\* clients, signals and task functions owe nothing.
Fairness ==
    /\ \A h \in Requests : WF_vars(HandlerStep(h))
    /\ \A r \in 1..MaxEvents : WF_vars(r \in DOMAIN run /\ RunStep(r))
    /\ WF_vars(TakeRun) /\ WF_vars(TakeLog) /\ WF_vars(PoolWritesLog)
    /\ WF_vars(StartScheduler) /\ WF_vars(ShutdownStep)

FairSpec == Spec /\ Fairness

-----------------------------------------------------------------------------
TypeOK ==
    /\ stage \in Stages /\ late \subseteq {"http", "async", "scheduler"} /\ cronOn \in BOOLEAN
    /\ table \in [Jobs -> Row \cup {Unborn, Deleted}]
    /\ entries \in [Jobs -> Row \cup {None}]
    /\ jobMu \in Requests \cup {None} /\ suspect \subseteq Jobs
    /\ handler \in [Requests -> Working \cup {At(where) : where \in {"none", "audit", "writeLog", "done"}}]
    /\ \A h \in Requests : (jobMu = h) = (handler[h] \in Working)
    /\ running \subseteq Jobs
    /\ Len(manualQueue) <= Capacity /\ Cardinality(manualBusy) <= Workers
    /\ manualBusy = {r \in DOMAIN run : run[r].via = "pool" /\ run[r].pc \notin {"queued", "done"}}
    /\ Len(logQueue) <= Capacity /\ Cardinality(logBusy) <= Workers

\* When no handler is at it, cron runs exactly the jobs the table says, in
\* the version the table has: no ghost of a deleted or paused job, no old
\* copy.  A write reported failed although it took effect is the exception.
EntriesMatchTable ==
    \A j \in Jobs \ suspect :
        \/ stage = "loading" \/ stage = "closed"
        \/ \E h \in Requests : handler[h].pc = "apply" /\ j \in handler[h].ids
        \/ entries[j] = Wanted(table[j])

\* Two runs of a job that both forbid overlapping never execute at the same
\* time, a run whose deadline has passed while its function goes on included.
ForbiddenRunsAlone ==
    \A r, q \in DOMAIN run :
        r # q /\ run[r].job = run[q].job /\ Forbids(r) /\ Forbids(q) => ~(Active(r) /\ Active(q))

\* No request's operation log is dropped, whatever the pool refuses.
AuditKept ==
    \A h \in Received \ InFlight :
        h \in logged \cup logBusy \cup {logQueue[i] : i \in DOMAIN logQueue}

\* A stage that did not time out has done its part when the database and
\* Redis are closed: nothing it waited for still uses them.
CloseIsQuiet ==
    stage = "closed" =>
        /\ "http" \notin late => InFlight = {}
        /\ "async" \notin late => /\ manualQueue = <<>> /\ manualBusy = {}
                                  /\ logQueue = <<>> /\ logBusy = {}
        /\ late \cap {"async", "scheduler"} = {} =>
               \A r \in DOMAIN run : ~Active(r) /\ run[r].pc = "done"
        /\ late \cap {"http", "async"} = {} => logged = Received

\* A run that was accepted comes to its end, even behind a task that never
\* returns, unless the process ends first.
AcceptedRunsEnd ==
    \A r \in 1..MaxEvents :
        (r \in DOMAIN run) ~> (stage = "closed" \/ (r \in DOMAIN run /\ run[r].pc = "done"))

\* If its functions return, a job that may not overlap is not skipped forever.
MarksAreReleased ==
    (\A r \in 1..MaxEvents : []<>~(r \in DOMAIN run /\ Active(r)))
        => \A j \in Jobs : (j \in running) ~> (j \notin running \/ stage = "closed")

\* A task that hangs keeps no run from ending, and one that returns late does
\* not keep its job from running again (job_scheduler.go:285).
RunsEnd == AcceptedRunsEnd /\ MarksAreReleased

\* Shutdown ends, whatever hangs.
ShutdownEnds == (stage = "http") ~> (stage = "closed")

\* job_scheduler.go:285 keeps the mark so that the next round does not
\* overlap the old task: a run that forbids overlapping has no other run of
\* its job beside it.
ForbidMeansAlone ==
    \A r, q \in DOMAIN run :
        r # q /\ run[r].job = run[q].job /\ Active(r) /\ Active(q) => ~Forbids(r) /\ ~Forbids(q)

=============================================================================
