--------------------------- MODULE BackgroundProofs ---------------------------
(***************************************************************************)
(* For any number of jobs, handlers, runs, workers and failures: runs that *)
(* forbid overlapping do not overlap (ForbiddenRunsAlone), cron runs what  *)
(* the table says (EntriesMatchTable), no operation log is dropped         *)
(* (AuditKept), and a process that closes its database with no stage timed *)
(* out leaves nothing at work (CloseIsQuiet).                              *)
(***************************************************************************)
EXTENDS Background, FiniteSetTheorems, TLAPS

RunRecord == [job: Jobs, row: Row, via: {"cron", "pool"}, pc: RunPCs,
              fn: {"none", "active", "returned"}, watched: BOOLEAN]

\* Everything but the service's functions: before, after, and in the middleware.
Away == {At(where) : where \in {"none", "audit", "writeLog", "done"}}

\* What a handler that holds the lock knows of the row it is working on.
Knows(h, t) ==
    LET op == handler[h].op
        pc == handler[h].pc
        row == handler[h].row
        ids == handler[h].ids
    IN /\ op # "Delete" => \E j \in Jobs : ids = {j}
       /\ pc = "select" => op \in {"Update", "ChangeStatus", "RunOnce"}
       /\ pc = "submit" => op = "RunOnce" /\ row \in Row
       /\ pc \in {"save", "apply"} => op # "RunOnce" /\ (op # "Delete" => row \in Row)
       /\ pc \in {"select", "save"} /\ op \in {"Create", "Update"} => row \in Row /\ row.target \in Schedulable
       /\ pc = "save" /\ op \in {"Update", "ChangeStatus"} => \A j \in ids : t[j] \in Row
       /\ pc = "save" /\ op = "ChangeStatus" =>
            \A j \in ids : row = [t[j] EXCEPT !.status = handler[h].status]
       /\ pc = "apply" => \A j \in ids : t[j] = IF op = "Delete" THEN Deleted ELSE row

HandlerInv ==
    /\ table \in [Jobs -> Row \cup {Unborn, Deleted}]
    /\ jobMu \in Requests \cup {None}
    /\ handler \in [Requests -> Working \cup Away]
    /\ \A h \in Requests : (jobMu = h) <=> (handler[h] \in Working)
    /\ \A h \in Requests : handler[h] \in Working => Knows(h, table)

\* Some handler has yet to change the entry of j.
Applying(j) == \E h \in Requests : handler[h].pc = "apply" /\ j \in handler[h].ids

\* A job that cannot be loaded has no entry; so the entry that a refused
\* reschedule leaves alone is the wanted one.
EntryInv ==
    /\ entries \in [Jobs -> Row \cup {None}]
    /\ stage = "loading" => handler = [h \in Requests |-> At("none")]
    /\ \A j \in Jobs : /\ stage = "loading" => entries[j] = None
                       /\ table[j] \in Row /\ table[j].target \notin Schedulable => entries[j] = None
    /\ stage \notin {"loading", "closed"} =>
         \A j \in Jobs \ suspect : Applying(j) \/ entries[j] = Wanted(table[j])

\* The mark of a job is held by one run at most: the one that executes its
\* function, before the function starts and after the call gave up included.
Holds(r) == Forbids(r) /\ (run[r].pc \in {"begun", "waiting"} \/ run[r].watched)

\* How far the call, its function and the watching goroutine can be apart.
Sound(call) ==
    /\ call.pc \in {"queued", "fired", "begun"} => call.fn = "none"
    /\ call.pc \in {"queued", "fired", "begun", "waiting"} => ~call.watched
    /\ call.fn = "active" => call.pc = "waiting" \/ call.watched

RunInv ==
    /\ run \in Seq(RunRecord)
    /\ manualQueue \in Seq(Nat)
    /\ \A i \in DOMAIN manualQueue : manualQueue[i] \in DOMAIN run /\ run[manualQueue[i]].pc = "queued"
    /\ \A i, k \in DOMAIN manualQueue : i # k => manualQueue[i] # manualQueue[k]
    /\ \A r \in DOMAIN run :
         /\ Sound(run[r])
         /\ Holds(r) => run[r].job \in running
    /\ \A r, q \in DOMAIN run : Holds(r) /\ Holds(q) /\ run[r].job = run[q].job => r = q

-----------------------------------------------------------------------------
\* A handler at one of the steps of the service holds the lock.
LEMMA AtWork ==
    ASSUME HandlerInv, NEW h \in Requests, handler[h].pc \in {"select", "save", "apply", "submit"}
    PROVE  handler[h] \in Working /\ Knows(h, table)
<1>1. SUFFICES ASSUME handler[h] \notin Working PROVE FALSE
  BY DEF HandlerInv
<1>2. PICK where \in {"none", "audit", "writeLog", "done"} : handler[h] = At(where)
  BY <1>1 DEF HandlerInv, Away
<1> QED
  BY <1>2 DEF At

LEMMA AwayFromWork == Away \cap Working = {} /\ None \notin Requests
<1>1. \A where \in {"none", "audit", "writeLog", "done"} : At(where) \notin Working
  BY DEF At, Working
<1> QED
  BY <1>1, MarkersAssumption, BoundsAssumption DEF Away, Requests

LEMMA HandlerInit == ASSUME Init PROVE HandlerInv
<1>1. At("none") \in Away
  BY DEF Away
<1> QED
  BY <1>1, AwayFromWork, BeginningsAssumption DEF Init, HandlerInv

\* The handler that leaves is the only one that was at work.
LEMMA LeaveKeeps ==
    ASSUME HandlerInv, NEW h \in Requests, handler[h] \in Working, Leave(h),
           table' \in [Jobs -> Row \cup {Unborn, Deleted}]
    PROVE  HandlerInv'
<1>1. At("audit") \in Away
  BY DEF Away
<1>2. \A g \in Requests : handler'[g] \notin Working
  BY <1>1, AwayFromWork DEF Leave, HandlerInv
<1> QED
  BY <1>1, <1>2, AwayFromWork DEF Leave, HandlerInv

\* The handler at work changes its own record, and knows the table it leaves.
LEMMA WorkKeeps ==
    ASSUME HandlerInv, NEW h \in Requests, handler[h] \in Working,
           NEW new \in Working, handler' = [handler EXCEPT ![h] = new], jobMu' = jobMu,
           table' \in [Jobs -> Row \cup {Unborn, Deleted}], Knows(h, table)'
    PROVE  HandlerInv'
<1>1. \A g \in Requests : g # h => handler[g] \notin Working /\ handler'[g] = handler[g]
  BY DEF HandlerInv
<1>2. handler'[h] = new
  BY DEF HandlerInv
<1> QED
  BY <1>1, <1>2 DEF HandlerInv

LEMMA HandlerNext == ASSUME HandlerInv, Next PROVE HandlerInv'
<1>1. ASSUME NEW h \in Requests, NEW op \in Operations, NEW ids \in SUBSET Jobs, NEW row \in Row \cup {None},
             NEW status \in Statuses, Enter(h, op, ids, row, status)
      PROVE HandlerInv'
  <2> DEFINE new == [pc |-> IF op \in {"Create", "Delete"} THEN "save" ELSE "select",
                     op |-> op, ids |-> ids, row |-> row, status |-> status]
  <2>1. new \in Working
    BY DEF Working
  <2>2. jobMu = None /\ jobMu' = h /\ handler' = [handler EXCEPT ![h] = new] /\ table' = table
    BY <1>1 DEF Enter
  <2>3. handler'[h] = new
    BY <2>2 DEF HandlerInv
  <2>4. /\ op # "Delete" => \E j \in Jobs : ids = {j}
        /\ op \in {"Create", "Update"} => row \in Row /\ row.target \in Schedulable
    BY <1>1 DEF Enter, Asked
  <2>5. Knows(h, table)'
    BY <2>2, <2>3, <2>4 DEF Knows, Operations
  <2> HIDE DEF new
  <2>6. \A g \in Requests : g # h => handler[g] \notin Working /\ handler'[g] = handler[g]
    BY <2>2, AwayFromWork DEF HandlerInv
  <2> QED
    BY <2>1, <2>2, <2>3, <2>5, <2>6, AwayFromWork DEF HandlerInv
<1>2. ASSUME NEW h \in Requests, Select(h) PROVE HandlerInv'
  <2>0. handler[h] \in Working /\ Knows(h, table) /\ handler[h].pc = "select"
    BY <1>2, AtWork DEF Select
  <2>1. CASE Leave(h)
    BY <2>0, <2>1, <1>2, LeaveKeeps DEF Select, HandlerInv
  <2>2. CASE ~Leave(h)
    <3> DEFINE j == TheJob(h)
               pc == IF handler[h].op = "RunOnce" THEN "submit" ELSE "save"
               row == CASE handler[h].op = "Update" -> handler[h].row
                        [] handler[h].op = "ChangeStatus" -> [table[j] EXCEPT !.status = handler[h].status]
                        [] OTHER -> table[j]
               new == [handler[h] EXCEPT !.pc = pc, !.row = row]
    <3>1. Exists(j) /\ handler' = [handler EXCEPT ![h] = new] /\ UNCHANGED <<jobMu, table>>
      BY <1>2, <2>2, <2>0 DEF Select, Working, HandlerInv, jobVars
    <3>2. handler[h].op \in {"Update", "ChangeStatus", "RunOnce"} /\ (\E i \in Jobs : handler[h].ids = {i})
      BY <2>0 DEF Knows
    <3>3. j \in Jobs /\ handler[h].ids = {j}
      BY <3>2 DEF TheJob
    <3>4. table[j] \in Row
      BY <3>1, <3>3 DEF Exists, HandlerInv
    <3>5. handler[h].op = "Update" => handler[h].row \in Row /\ handler[h].row.target \in Schedulable
      BY <2>0 DEF Knows
    <3>6. row \in Row /\ (handler[h].op = "Update" => row.target \in Schedulable)
      BY <3>2, <3>4, <3>5, <2>0 DEF Row, Working
    <3>7. /\ new \in Working /\ new.pc = pc /\ new.row = row
          /\ new.op = handler[h].op /\ new.ids = handler[h].ids /\ new.status = handler[h].status
      BY <2>0, <3>6 DEF Working
    <3>8. handler[h].op = "ChangeStatus" => row = [table[j] EXCEPT !.status = handler[h].status]
      BY <3>2
    <3>9. handler'[h] = new
      BY <3>1 DEF HandlerInv
    <3> HIDE DEF new, row, j
    <3>10. Knows(h, table)'
      BY <3>1, <3>2, <3>3, <3>4, <3>6, <3>7, <3>8, <3>9 DEF Knows
    <3> QED
      BY <3>1, <3>7, <3>10, <2>0, WorkKeeps DEF HandlerInv
  <2> QED BY <2>1, <2>2
<1>3. ASSUME NEW h \in Requests, Save(h) PROVE HandlerInv'
  <2>0. handler[h] \in Working /\ Knows(h, table) /\ handler[h].pc = "save"
    BY <1>3, AtWork DEF Save
  <2> DEFINE op == handler[h].op
             ids == handler[h].ids
             new == [handler[h] EXCEPT !.pc = "apply"]
  <2>1. PICK effect, ok \in BOOLEAN :
          /\ ok => effect
          /\ table' = [j \in Jobs |-> IF effect /\ j \in ids THEN Saved(h, j) ELSE table[j]]
          /\ IF ok THEN handler' = [handler EXCEPT ![h] = new] /\ UNCHANGED jobMu ELSE Leave(h)
    BY <1>3 DEF Save
  <2>2. /\ op \in {"Create", "Update", "ChangeStatus", "Delete"} /\ ids \subseteq Jobs
        /\ op # "Delete" => handler[h].row \in Row
        /\ op \in {"Update", "ChangeStatus"} => \A j \in ids : table[j] \in Row
        /\ op = "ChangeStatus" => \A j \in ids : handler[h].row = [table[j] EXCEPT !.status = handler[h].status]
    BY <2>0 DEF Knows, Working, Operations
  <2>3. \A j \in ids : Saved(h, j) = IF op = "Delete" THEN Deleted ELSE handler[h].row
    <3>1. \A j \in ids : op \in {"Update", "ChangeStatus"} => Exists(j)
      BY <2>2, MarkersAssumption DEF Exists
    <3>2. CASE op = "Create"
      BY <3>2 DEF Saved
    <3>5. CASE op = "Delete"
      BY <3>5 DEF Saved
    <3>3. CASE op = "Update"
      BY <3>1, <3>3 DEF Saved
    <3>4. CASE op = "ChangeStatus"
      BY <2>2, <3>1, <3>4 DEF Saved
    <3> QED
      BY <2>2, <3>2, <3>3, <3>4, <3>5
  <2>4. table' \in [Jobs -> Row \cup {Unborn, Deleted}]
    BY <2>1, <2>2, <2>3 DEF HandlerInv
  <2>5. CASE ~ok
    <3>1. Leave(h)
      BY <2>1, <2>5
    <3> QED
      BY <2>0, <2>4, <3>1, LeaveKeeps
  <2>6. CASE ok
    <3>1. handler'[h] = new /\ new \in Working /\ new.pc = "apply" /\ new.op = op /\ new.ids = ids
            /\ new.row = handler[h].row
      BY <2>0, <2>1, <2>6 DEF HandlerInv, Working
    <3>2. \A j \in ids : table'[j] = IF op = "Delete" THEN Deleted ELSE handler[h].row
      BY <2>1, <2>2, <2>3, <2>6
    <3>3. op # "Delete" => \E j \in Jobs : ids = {j}
      BY <2>0 DEF Knows
    <3> HIDE DEF new, op, ids
    <3>4. Knows(h, table)'
      BY <2>2, <3>1, <3>2, <3>3 DEF Knows, op, ids
    <3> QED
      BY <2>0, <2>1, <2>4, <2>6, <3>1, <3>4, WorkKeeps
  <2> QED BY <2>5, <2>6
<1>4. ASSUME NEW h \in Requests, Apply(h) PROVE HandlerInv'
  <2>0. handler[h] \in Working /\ Knows(h, table) /\ handler[h].pc = "apply" /\ table' = table
    BY <1>4, AtWork DEF Apply
  <2>1. PICK j \in handler[h].ids :
          IF handler[h].ids = {j} THEN Leave(h)
          ELSE handler' = [handler EXCEPT ![h].ids = @ \ {j}] /\ UNCHANGED jobMu
    BY <1>4 DEF Apply
  <2>2. CASE handler[h].ids = {j}
    BY <2>0, <2>1, <2>2, LeaveKeeps DEF HandlerInv
  <2>3. CASE handler[h].ids # {j}
    <3> DEFINE new == [handler[h] EXCEPT !.ids = @ \ {j}]
    <3>1. handler' = [handler EXCEPT ![h] = new] /\ jobMu' = jobMu
      BY <2>1, <2>3
    <3>2. /\ handler'[h] = new /\ new \in Working /\ new.pc = "apply" /\ new.op = handler[h].op
          /\ new.ids = handler[h].ids \ {j} /\ new.row = handler[h].row
      BY <3>1, <2>0 DEF HandlerInv, Working
    <3>3. handler[h].op = "Delete"
      BY <2>0, <2>1, <2>3 DEF Knows
    <3> HIDE DEF new
    <3>4. Knows(h, table)'
      BY <2>0, <3>2, <3>3 DEF Knows
    <3> QED
      BY <2>0, <3>1, <3>2, <3>4, WorkKeeps DEF HandlerInv
  <2> QED BY <2>2, <2>3
<1>5. ASSUME NEW h \in Requests, SubmitRun(h) PROVE HandlerInv'
  BY <1>5, AtWork, LeaveKeeps DEF SubmitRun, HandlerInv
<1>6. ASSUME NEW h \in Requests, Audit(h) \/ WriteLog(h) PROVE HandlerInv'
  <2>1. handler[h] \notin Working
    BY <1>6 DEF Audit, WriteLog, Working
  <2>2. PICK new \in Away : handler' = [handler EXCEPT ![h] = new]
    <3>1. CASE handler' = [handler EXCEPT ![h] = At("done")]
      BY <3>1 DEF Away
    <3>2. CASE Audit(h) /\ handler' = [handler EXCEPT ![h].pc = "writeLog"]
      <4>1. PICK where \in {"none", "audit", "writeLog", "done"} : handler[h] = At(where)
        BY <2>1 DEF HandlerInv, Away
      <4>2. [handler[h] EXCEPT !.pc = "writeLog"] = At("writeLog")
        BY <4>1 DEF At
      <4> QED
        BY <3>2, <4>2 DEF Away
    <3> QED
      BY <1>6, <3>1, <3>2 DEF Audit, WriteLog
  <2>3. UNCHANGED <<table, jobMu>>
    BY <1>6 DEF Audit, WriteLog, jobVars
  <2>4. \A g \in Requests : handler'[g] \in Working => handler'[g] = handler[g]
    BY <2>1, <2>2, AwayFromWork DEF HandlerInv
  <2>5. \A g \in Requests : handler[g] \in Working => handler'[g] = handler[g]
    BY <2>1, <2>2 DEF HandlerInv
  <2> QED
    BY <2>2, <2>3, <2>4, <2>5 DEF HandlerInv, Knows
<1>7. ASSUME UNCHANGED <<table, jobMu, handler>> PROVE HandlerInv'
  BY <1>7 DEF HandlerInv, Knows
<1>8. ASSUME NEW r \in DOMAIN run, RunStep(r) \/ TaskReturns(r) PROVE HandlerInv'
  BY <1>7, <1>8 DEF RunStep, TaskReturns, BeginRun, StartTask, ReceiveResult, DeadlinePasses,
       LateRelease, RecordRun, jobVars
<1>9. ASSUME NEW j \in Jobs, Fire(j) PROVE HandlerInv'
  BY <1>7, <1>9 DEF Fire, jobVars
<1>10. ASSUME PoolStep PROVE HandlerInv'
  BY <1>7, <1>10 DEF PoolStep, TakeRun, TakeLog, PoolWritesLog, jobVars
<1>11. ASSUME StartScheduler \/ Signal \/ ShutdownStep PROVE HandlerInv'
  BY <1>7, <1>11 DEF StartScheduler, Signal, ShutdownStep, EndHTTP, CloseManualPool, CloseLogPool,
       EndAsync, EndCallbacks, EndTasks, StopSchedulerTimesOut, OnlyStage, jobVars
<1> QED
  BY <1>1, <1>2, <1>3, <1>4, <1>5, <1>6, <1>8, <1>9, <1>10, <1>11 DEF Next, HandlerStep

-----------------------------------------------------------------------------
LEMMA EntryInit == ASSUME Init PROVE EntryInv
BY DEF Init, EntryInv

\* A step that concerns neither rows nor entries, and no handler about to
\* change an entry.
LEMMA EntryKept ==
    ASSUME EntryInv, UNCHANGED <<table, entries, suspect>>,
           stage' = stage \/ (stage # "loading" /\ stage' # "loading") \/ stage' = "closed",
           stage = "closed" => stage' = "closed",
           stage' = "loading" => handler' = handler,
           \A h \in Requests : handler[h].pc = "apply" => handler'[h] = handler[h]
    PROVE  EntryInv'
<1>1. \A j \in Jobs : Applying(j) => Applying(j)'
  BY DEF Applying
<1>2. stage' \notin {"loading", "closed"} => stage \notin {"loading", "closed"}
  OBVIOUS
<1> HIDE DEF Applying
<1> QED
  BY <1>1, <1>2 DEF EntryInv

LEMMA EntryNext == ASSUME HandlerInv, HandlerInv', EntryInv, Next PROVE EntryInv'
<1>1. ASSUME NEW h \in Requests, NEW op \in Operations, NEW ids \in SUBSET Jobs, NEW row \in Row \cup {None},
             NEW status \in Statuses, Enter(h, op, ids, row, status)
      PROVE EntryInv'
  <2>1. stage = "serving" /\ UNCHANGED <<table, entries, suspect, stage>> /\ jobMu = None
    BY <1>1 DEF Enter, stageVars
  <2>2. \A g \in Requests : handler[g].pc # "apply"
    BY <2>1, AtWork, AwayFromWork DEF HandlerInv
  <2> QED
    BY <2>1, <2>2, EntryKept
<1>2. ASSUME NEW h \in Requests, HandlerStep(h) PROVE EntryInv'
  <2>0. stage \notin {"loading", "closed"} /\ stage' = stage
    <3>1. handler[h] # At("none") /\ stage # "closed"
      BY <1>2 DEF HandlerStep, InFlight, Received
    <3> QED
      BY <1>2, <3>1 DEF EntryInv, HandlerStep, Select, Save, Apply, SubmitRun, Audit, WriteLog, stageVars
  <2>1. CASE Select(h) \/ SubmitRun(h) \/ Audit(h) \/ WriteLog(h)
    <3>1. UNCHANGED <<table, entries, suspect>> /\ handler[h].pc # "apply"
      BY <2>1 DEF Select, SubmitRun, Audit, WriteLog, jobVars
    <3>2. \A g \in Requests : g # h => handler'[g] = handler[g]
      BY <2>1 DEF Select, SubmitRun, Audit, WriteLog, Leave, HandlerInv
    <3> QED
      BY <2>0, <3>1, <3>2, EntryKept
  <2>2. CASE Save(h)
    <3>0. handler[h] \in Working /\ Knows(h, table) /\ handler[h].pc = "save" /\ entries' = entries
      BY <2>2, AtWork DEF Save
    <3> DEFINE op == handler[h].op
               ids == handler[h].ids
    <3>1. PICK effect, ok \in BOOLEAN :
            /\ ok => effect
            /\ table' = [j \in Jobs |-> IF effect /\ j \in ids THEN Saved(h, j) ELSE table[j]]
            /\ suspect' = IF effect /\ ~ok THEN suspect \cup ids ELSE suspect
            /\ IF ok THEN handler' = [handler EXCEPT ![h].pc = "apply"] /\ UNCHANGED jobMu ELSE Leave(h)
      BY <2>2 DEF Save
    <3>2. ASSUME NEW j \in Jobs, table'[j] \in Row, table'[j].target \notin Schedulable PROVE entries'[j] = None
      <4>1. CASE ~(effect /\ j \in ids)
        BY <3>0, <3>1, <3>2, <4>1 DEF EntryInv
      <4>2. CASE effect /\ j \in ids
        <5>1. table'[j] = Saved(h, j)
          BY <3>1, <4>2
        <5>2. /\ op \in {"Create", "Update", "ChangeStatus", "Delete"}
              /\ op \in {"Create", "Update"} => handler[h].row.target \in Schedulable
              /\ op \in {"Update", "ChangeStatus"} => table[j] \in Row
          BY <3>0, <4>2 DEF Knows, Working, Operations
        <5>3. op # "Delete"
          BY <3>2, <5>1, MarkersAssumption DEF Saved
        <5>4. op # "Create" /\ op # "Update" /\ table[j] \in Row
          <6>1. op = "Create" => table'[j] = handler[h].row
            BY <5>1 DEF Saved
          <6>2. op \in {"Update", "ChangeStatus"} => Exists(j)
            BY <5>2, MarkersAssumption DEF Exists
          <6>3. op = "Update" => table'[j] = handler[h].row
            BY <5>1, <6>2 DEF Saved
          <6> QED
            BY <3>2, <5>2, <5>3, <6>1, <6>3
        <5>5. table'[j] = [table[j] EXCEPT !.status = handler[h].status]
          BY <5>1, <5>2, <5>3, <5>4, MarkersAssumption DEF Saved, Exists
        <5>6. table'[j].target = table[j].target
          BY <5>4, <5>5 DEF Row
        <5> QED
          BY <3>0, <3>2, <5>4, <5>6 DEF EntryInv
      <4> QED BY <4>1, <4>2
    <3>3. ASSUME NEW j \in Jobs \ suspect' PROVE Applying(j)' \/ entries'[j] = Wanted(table'[j])
      <4>1. j \in Jobs \ suspect
        BY <3>1, <3>3
      <4>2. CASE effect /\ j \in ids
        <5>1. ok
          BY <3>1, <3>3, <4>2
        <5>2. handler'[h].pc = "apply" /\ handler'[h].ids = ids
          BY <3>0, <3>1, <5>1 DEF HandlerInv, Working
        <5> QED
          BY <4>2, <5>2 DEF Applying
      <4>3. CASE ~(effect /\ j \in ids)
        <5>1. table'[j] = table[j]
          BY <3>1, <4>3
        <5>2. \A g \in Requests : handler[g].pc = "apply" => FALSE
          BY <3>0, AtWork DEF HandlerInv
        <5> QED
          BY <2>0, <3>0, <4>1, <5>1, <5>2 DEF EntryInv, Applying
      <4> QED BY <4>2, <4>3
    <3> QED
      BY <2>0, <3>0, <3>2, <3>3 DEF EntryInv
  <2>3. CASE Apply(h)
    <3>0. handler[h] \in Working /\ Knows(h, table) /\ handler[h].pc = "apply" /\ table' = table
      BY <2>3, AtWork DEF Apply
    <3>1. PICK j \in handler[h].ids :
            /\ IF handler[h].op = "Delete" THEN Remove(j) ELSE Reschedule(j, handler[h].row)
            /\ suspect' = suspect \ {j}
            /\ IF handler[h].ids = {j} THEN Leave(h)
               ELSE handler' = [handler EXCEPT ![h].ids = @ \ {j}] /\ UNCHANGED jobMu
      BY <2>3 DEF Apply
    <3>2. j \in Jobs /\ table[j] = (IF handler[h].op = "Delete" THEN Deleted ELSE handler[h].row)
            /\ handler[h].op \in {"Create", "Update", "ChangeStatus", "Delete"}
      BY <3>0 DEF Knows, Working, Operations
    <3>3. /\ entries'[j] = Wanted(table[j])
          /\ entries' \in [Jobs -> Row \cup {None}]
          /\ \A i \in Jobs : i # j => entries'[i] = entries[i]
      <4>1. CASE handler[h].op = "Delete"
        <5>1. entries' = [entries EXCEPT ![j] = None]
          BY <3>1, <4>1 DEF Remove
        <5>2. Wanted(table[j]) = None
          BY <3>2, <4>1, MarkersAssumption DEF Wanted
        <5> QED
          BY <3>2, <5>1, <5>2 DEF EntryInv
      <4>2. CASE handler[h].op # "Delete"
        <5>1. Reschedule(j, handler[h].row) /\ table[j] = handler[h].row /\ table[j] \in Row
          BY <3>0, <3>1, <3>2, <4>2 DEF Knows
        <5>2. CASE table[j].status = "normal" /\ table[j].target \notin Schedulable
          BY <3>2, <5>1, <5>2 DEF EntryInv, Reschedule, Wanted
        <5>3. CASE ~(table[j].status = "normal" /\ table[j].target \notin Schedulable)
          <6>1. entries' = [entries EXCEPT ![j] = Wanted(table[j])]
            BY <5>1, <5>3 DEF Reschedule
          <6>2. Wanted(table[j]) \in Row \cup {None}
            BY DEF Wanted
          <6> QED
            BY <3>2, <6>1, <6>2 DEF EntryInv
        <5> QED BY <5>2, <5>3
      <4> QED BY <4>1, <4>2
    <3>4. ASSUME NEW i \in Jobs \ suspect', i # j PROVE Applying(i)' \/ entries'[i] = Wanted(table'[i])
      <4>1. i \in Jobs \ suspect /\ entries'[i] = entries[i]
        BY <3>1, <3>3, <3>4
      <4>2. ASSUME Applying(i) PROVE Applying(i)'
        <5>1. PICK g \in Requests : handler[g].pc = "apply" /\ i \in handler[g].ids
          BY <4>2 DEF Applying
        <5>2. g = h
          BY <3>0, <5>1, AtWork DEF HandlerInv
        <5>3. handler[h].ids # {j}
          BY <3>4, <5>1, <5>2
        <5>4. handler'[h].pc = "apply" /\ handler'[h].ids = handler[h].ids \ {j}
          BY <3>0, <3>1, <5>3 DEF HandlerInv, Working
        <5> QED
          BY <3>4, <5>1, <5>2, <5>4 DEF Applying
      <4> QED
        BY <2>0, <3>0, <4>1, <4>2 DEF EntryInv
    <3>5. ASSUME NEW i \in Jobs, table'[i] \in Row, table'[i].target \notin Schedulable PROVE entries'[i] = None
      <4>1. CASE i = j
        BY <3>0, <3>3, <3>5, <4>1 DEF Wanted
      <4>2. CASE i # j
        BY <3>0, <3>3, <3>5, <4>2 DEF EntryInv
      <4> QED BY <4>1, <4>2
    <3> HIDE DEF Applying
    <3> QED
      BY <2>0, <3>0, <3>3, <3>4, <3>5 DEF EntryInv
  <2> QED
    BY <1>2, <2>1, <2>2, <2>3 DEF HandlerStep
<1>3. ASSUME NEW r \in DOMAIN run, RunStep(r) \/ TaskReturns(r) PROVE EntryInv'
  BY <1>3, EntryKept DEF RunStep, TaskReturns, BeginRun, StartTask, ReceiveResult, DeadlinePasses,
       LateRelease, RecordRun, jobVars, stageVars
<1>4. ASSUME NEW j \in Jobs, Fire(j) PROVE EntryInv'
  BY <1>4, EntryKept DEF Fire, jobVars, stageVars
<1>5. ASSUME PoolStep PROVE EntryInv'
  BY <1>5, EntryKept DEF PoolStep, TakeRun, TakeLog, PoolWritesLog, jobVars, stageVars
<1>6. ASSUME StartScheduler PROVE EntryInv'
  <2>1. CASE stage' = "closed"
    BY <1>6, <2>1, EntryKept DEF StartScheduler, StageStep
  <2>2. CASE stage' # "closed"
    <3>1. /\ stage = "loading" /\ stage' = "serving" /\ UNCHANGED <<table, handler>>
          /\ entries' = [j \in Jobs |-> Wanted(table[j])]
      BY <1>6, <2>2 DEF StartScheduler, StageStep
    <3>2. \A j \in Jobs : Wanted(table[j]) \in Row \cup {None}
      BY DEF Wanted
    <3>3. \A j \in Jobs : table[j].target \notin Schedulable => Wanted(table[j]) = None
      BY DEF Wanted
    <3> QED
      BY <3>1, <3>2, <3>3 DEF EntryInv
  <2> QED BY <2>1, <2>2
<1>7. ASSUME Signal \/ ShutdownStep PROVE EntryInv'
  BY <1>7, EntryKept DEF Signal, ShutdownStep, EndHTTP, CloseManualPool, CloseLogPool, EndAsync,
       EndCallbacks, EndTasks, StopSchedulerTimesOut, OnlyStage, StageStep, jobVars, stageVars
<1> QED
  BY <1>1, <1>2, <1>3, <1>4, <1>5, <1>6, <1>7 DEF Next

-----------------------------------------------------------------------------
LEMMA RunInit == ASSUME Init PROVE RunInv
BY DEF Init, RunInv, ManualPool!NewPool

LEMMA RunKept == ASSUME RunInv, UNCHANGED <<run, running, manualQueue>> PROVE RunInv'
BY DEF RunInv, Holds, Forbids

\* A new call, that has not begun.
LEMMA RunAdded ==
    ASSUME RunInv, NEW new \in RunRecord, new.pc \in {"queued", "fired"}, Sound(new),
           run' = Append(run, new), running' = running,
           \/ manualQueue' = manualQueue
           \/ new.pc = "queued" /\ manualQueue' = Append(manualQueue, Len(run) + 1)
    PROVE  RunInv'
<1>1. /\ run' \in Seq(RunRecord) /\ DOMAIN run' = 1..(Len(run) + 1) /\ DOMAIN run = 1..Len(run) /\ Len(run) \in Nat
      /\ run'[Len(run) + 1] = new
      /\ \A r \in DOMAIN run : run'[r] = run[r] /\ r \in DOMAIN run'
  BY DEF RunInv
<1>2. \A r \in DOMAIN run' : Holds(r)' => r \in DOMAIN run /\ Holds(r)
  BY <1>1 DEF Holds, Forbids, Sound
<1>3. /\ manualQueue' \in Seq(Nat)
      /\ \A i \in DOMAIN manualQueue' : manualQueue'[i] \in DOMAIN run' /\ run'[manualQueue'[i]].pc = "queued"
      /\ \A i, k \in DOMAIN manualQueue' : i # k => manualQueue'[i] # manualQueue'[k]
  <2>1. CASE manualQueue' = manualQueue
    BY <1>1, <2>1 DEF RunInv
  <2>2. CASE new.pc = "queued" /\ manualQueue' = Append(manualQueue, Len(run) + 1)
    <3>1. \A i \in DOMAIN manualQueue : manualQueue[i] # Len(run) + 1
      BY <1>1 DEF RunInv
    <3>2. /\ DOMAIN manualQueue' = 1..(Len(manualQueue) + 1) /\ DOMAIN manualQueue = 1..Len(manualQueue)
          /\ Len(manualQueue) \in Nat /\ manualQueue'[Len(manualQueue) + 1] = Len(run) + 1
          /\ \A i \in DOMAIN manualQueue : manualQueue'[i] = manualQueue[i]
      BY <2>2 DEF RunInv
    <3> QED
      BY <1>1, <2>2, <3>1, <3>2 DEF RunInv
  <2> QED BY <2>1, <2>2
<1>4. \A r \in DOMAIN run' : Sound(run'[r]) /\ (Holds(r)' => run'[r].job \in running')
  BY <1>1, <1>2 DEF RunInv
<1>5. \A r, q \in DOMAIN run' : Holds(r)' /\ Holds(q)' /\ run'[r].job = run'[q].job => r = q
  BY <1>1, <1>2 DEF RunInv
<1> HIDE DEF Holds, Sound
<1> QED
  BY <1>1, <1>3, <1>4, <1>5 DEF RunInv

\* One call goes on: it keeps or forgoes the mark of its job, gives it back,
\* or takes it.
LEMMA RunChanged ==
    ASSUME RunInv, NEW r \in DOMAIN run, NEW new \in RunRecord,
           new.pc # "queued", \A i \in DOMAIN manualQueue' : manualQueue'[i] # r,
           new.job = run[r].job, new.row = run[r].row, Sound(new),
           run' = [run EXCEPT ![r] = new],
           manualQueue' = manualQueue \/ (manualQueue # <<>> /\ manualQueue' = Tail(manualQueue)),
           \/ (Holds(r)' => Holds(r)) /\ running' = running
           \/ Holds(r) /\ ~Holds(r)' /\ running' = running \ {run[r].job}
           \/ run[r].job \notin running /\ running' = running \cup {run[r].job}
    PROVE  RunInv'
<1>1. /\ run' \in Seq(RunRecord) /\ DOMAIN run' = DOMAIN run /\ run'[r] = new
      /\ \A q \in DOMAIN run : q # r => run'[q] = run[q]
  BY DEF RunInv
<1>2. \A q \in DOMAIN run : run'[q].job = run[q].job /\ (q # r => (Holds(q)' <=> Holds(q)))
  BY <1>1 DEF Holds, Forbids
<1>3. /\ manualQueue' \in Seq(Nat)
      /\ \A i \in DOMAIN manualQueue' : manualQueue'[i] \in DOMAIN run' /\ run'[manualQueue'[i]].pc = "queued"
      /\ \A i, k \in DOMAIN manualQueue' : i # k => manualQueue'[i] # manualQueue'[k]
  <2>1. CASE manualQueue' = manualQueue
    BY <1>1, <2>1 DEF RunInv
  <2>2. CASE manualQueue # <<>> /\ manualQueue' = Tail(manualQueue)
    <3>1. /\ manualQueue \in Seq(Nat) /\ DOMAIN manualQueue = 1..Len(manualQueue) /\ Len(manualQueue) \in Nat
          /\ manualQueue' \in Seq(Nat) /\ DOMAIN manualQueue' = 1..(Len(manualQueue) - 1)
          /\ \A i \in DOMAIN manualQueue' : manualQueue'[i] = manualQueue[i + 1]
      BY <2>2 DEF RunInv
    <3>2. \A i \in DOMAIN manualQueue' : i + 1 \in DOMAIN manualQueue
      BY <3>1
    <3>3. \A i, k \in DOMAIN manualQueue' : i # k => i + 1 # k + 1
      BY <3>1
    <3>4. \A i \in DOMAIN manualQueue' : manualQueue'[i] \in DOMAIN run /\ run[manualQueue'[i]].pc = "queued"
      BY <3>1, <3>2 DEF RunInv
    <3>5. \A i, k \in DOMAIN manualQueue' : i # k => manualQueue'[i] # manualQueue'[k]
      BY <3>1, <3>2, <3>3 DEF RunInv
    <3> QED
      BY <1>1, <3>1, <3>4, <3>5
  <2> QED BY <2>1, <2>2
<1>4. \A q \in DOMAIN run' : Sound(run'[q])
  BY <1>1 DEF RunInv
<1>5. /\ \A q \in DOMAIN run : Holds(q)' => run'[q].job \in running'
      /\ \A p, q \in DOMAIN run : Holds(p)' /\ Holds(q)' /\ run'[p].job = run'[q].job => p = q
  <2> HIDE DEF Holds
  <2>1. CASE (Holds(r)' => Holds(r)) /\ running' = running
    BY <1>2, <2>1 DEF RunInv
  <2>2. CASE Holds(r) /\ ~Holds(r)' /\ running' = running \ {run[r].job}
    BY <1>2, <2>2 DEF RunInv
  <2>3. CASE run[r].job \notin running /\ running' = running \cup {run[r].job}
    <3>1. \A q \in DOMAIN run : Holds(q) => run[q].job \in running /\ run[q].job # run[r].job
      BY <2>3 DEF RunInv
    <3>2. \A q \in DOMAIN run : Holds(q)' => run'[q].job \in running'
      BY <1>2, <2>3, <3>1
    <3>3. \A p, q \in DOMAIN run : Holds(p)' /\ Holds(q)' /\ run[p].job = run[q].job => p = q
      BY <1>2, <3>1 DEF RunInv
    <3> QED
      BY <1>2, <3>2, <3>3
  <2> QED BY <2>1, <2>2, <2>3
<1> HIDE DEF Holds, Sound
<1> QED
  BY <1>1, <1>3, <1>4, <1>5 DEF RunInv

\* A call that is not in the queue, at another step than being queued.
LEMMA RunMoves ==
    ASSUME RunInv, NEW r \in DOMAIN run, run[r].pc # "queued", manualQueue' = manualQueue,
           NEW new \in RunRecord, new.pc # "queued", new.job = run[r].job, new.row = run[r].row, Sound(new),
           run' = [run EXCEPT ![r] = new],
           \/ (Holds(r)' => Holds(r)) /\ running' = running
           \/ Holds(r) /\ ~Holds(r)' /\ running' = running \ {run[r].job}
           \/ run[r].job \notin running /\ running' = running \cup {run[r].job}
    PROVE  RunInv'
<1>1. \A i \in DOMAIN manualQueue' : manualQueue'[i] # r
  BY DEF RunInv
<1> HIDE DEF Holds, Sound
<1> QED
  BY <1>1, RunChanged

LEMMA RunNext == ASSUME HandlerInv, EntryInv, RunInv, Next PROVE RunInv'
<1>1. ASSUME NEW h \in Requests, SubmitRun(h) PROVE RunInv'
  <2>1. CASE UNCHANGED <<run, running, manualQueue>>
    BY <2>1, RunKept
  <2>2. CASE ManualPool!Submit(Len(run) + 1)
               /\ run' = Append(run, NewRun(TheJob(h), handler[h].row, "pool", "queued"))
    <3> DEFINE new == NewRun(TheJob(h), handler[h].row, "pool", "queued")
    <3>1. handler[h].row \in Row /\ (\E j \in Jobs : handler[h].ids = {j})
      BY <1>1, AtWork DEF SubmitRun, Knows
    <3>2. TheJob(h) \in Jobs
      BY <3>1 DEF TheJob
    <3>3. new \in RunRecord /\ new.pc = "queued" /\ Sound(new)
      BY <3>1, <3>2 DEF NewRun, RunRecord, RunPCs, Sound
    <3>4. running' = running /\ manualQueue' = Append(manualQueue, Len(run) + 1) /\ run' = Append(run, new)
      BY <1>1, <2>2 DEF SubmitRun, ManualPool!Submit
    <3> HIDE DEF new
    <3> QED
      BY <3>3, <3>4, RunAdded
  <2> QED
    BY <1>1, <2>1, <2>2 DEF SubmitRun, manualVars
<1>2. ASSUME NEW j \in Jobs, Fire(j) PROVE RunInv'
  <2> DEFINE new == NewRun(j, entries[j], "cron", "fired")
  <2>1. entries[j] \in Row
    BY <1>2 DEF Fire, EntryInv
  <2>2. new \in RunRecord /\ new.pc = "fired" /\ Sound(new)
    BY <2>1 DEF NewRun, RunRecord, RunPCs, Sound
  <2>3. running' = running /\ manualQueue' = manualQueue /\ run' = Append(run, new)
    BY <1>2 DEF Fire, manualVars
  <2> HIDE DEF new
  <2> QED
    BY <2>2, <2>3, RunAdded
<1>3. ASSUME TakeRun PROVE RunInv'
  <2>0. PICK r : r = Head(manualQueue)
    OBVIOUS
  <2> DEFINE new == [run[r] EXCEPT !.pc = "fired"]
  <2>1. manualQueue # <<>> /\ manualQueue' = Tail(manualQueue) /\ run' = [run EXCEPT ![r] = new] /\ running' = running
    BY <1>3, <2>0 DEF TakeRun, ManualPool!Take
  <2>2. /\ manualQueue \in Seq(Nat) /\ 1 \in DOMAIN manualQueue /\ r = manualQueue[1]
        /\ DOMAIN manualQueue' = 1..(Len(manualQueue) - 1) /\ Len(manualQueue) \in Nat
        /\ \A i \in DOMAIN manualQueue' : manualQueue'[i] = manualQueue[i + 1] /\ i + 1 \in DOMAIN manualQueue
    BY <2>0, <2>1 DEF RunInv
  <2>3. r \in DOMAIN run /\ run[r].pc = "queued" /\ run[r] \in RunRecord /\ Sound(run[r])
    BY <2>2 DEF RunInv
  <2>4. \A i \in DOMAIN manualQueue' : manualQueue'[i] # r
    <3>1. \A i \in DOMAIN manualQueue' : i \in Nat /\ i >= 1 /\ i + 1 # 1
      BY <2>2
    <3> QED
      BY <2>2, <3>1 DEF RunInv
  <2>5. new \in RunRecord /\ new.pc = "fired" /\ new.job = run[r].job /\ new.row = run[r].row /\ Sound(new)
          /\ new.watched = run[r].watched
    BY <2>3 DEF RunRecord, RunPCs, Sound
  <2>6. run'[r] = new
    BY <2>1, <2>3
  <2> HIDE DEF new
  <2>7. Holds(r)' => Holds(r)
    BY <2>5, <2>6 DEF Holds, Forbids
  <2> HIDE DEF Holds, Sound
  <2> QED
    BY <2>1, <2>3, <2>4, <2>5, <2>7, RunChanged
<1>4. ASSUME NEW r \in DOMAIN run, RunStep(r) \/ TaskReturns(r) PROVE RunInv'
  <2>0. run[r] \in RunRecord /\ Sound(run[r])
    BY DEF RunInv
  <2>1. CASE BeginRun(r)
    <3> DEFINE new(to) == [run[r] EXCEPT !.pc = to]
    <3>1. /\ run[r].pc = "fired" /\ manualQueue' = manualQueue
          /\ \/ run' = [run EXCEPT ![r] = new("done")] /\ running' = running
             \/ /\ run' = [run EXCEPT ![r] = new("begun")]
                /\ running' = IF Forbids(r) THEN running \cup {run[r].job} ELSE running
                /\ Forbids(r) => run[r].job \notin running
      BY <2>1 DEF BeginRun, Return, ManualPool!Done, manualVars
    <3>2. PICK to \in {"done", "begun"} :
            /\ run' = [run EXCEPT ![r] = new(to)]
            /\ \/ running' = running /\ (to = "begun" => ~Forbids(r))
               \/ run[r].job \notin running /\ running' = running \cup {run[r].job}
      BY <3>1
    <3>3. /\ new(to) \in RunRecord /\ new(to).pc = to /\ new(to).job = run[r].job /\ new(to).row = run[r].row
          /\ Sound(new(to)) /\ new(to).watched = FALSE
      BY <2>0, <3>1 DEF RunRecord, RunPCs, Sound
    <3>4. run'[r] = new(to)
      BY <3>2
    <3> HIDE DEF new
    <3>5. to = "done" \/ ~Forbids(r) => ~Holds(r)'
      BY <3>3, <3>4 DEF Holds, Forbids
    <3> HIDE DEF Holds, Sound
    <3> QED
      BY <3>1, <3>2, <3>3, <3>5, RunMoves
  <2>2. CASE StartTask(r)
    <3> DEFINE new == [run[r] EXCEPT !.pc = "waiting", !.fn = "active"]
    <3>1. run[r].pc = "begun" /\ run' = [run EXCEPT ![r] = new] /\ UNCHANGED <<running, manualQueue>>
      BY <2>0, <2>2 DEF StartTask, manualVars, RunRecord
    <3>2. /\ new \in RunRecord /\ new.pc = "waiting" /\ new.job = run[r].job /\ new.row = run[r].row
          /\ Sound(new) /\ new.watched = run[r].watched
      BY <2>0, <3>1 DEF RunRecord, RunPCs, Sound
    <3>3. run'[r] = new
      BY <3>1
    <3> HIDE DEF new
    <3>4. Holds(r)' => Holds(r)
      BY <3>1, <3>2, <3>3 DEF Holds, Forbids
    <3> HIDE DEF Holds, Sound
    <3> QED
      BY <3>1, <3>2, <3>4, RunMoves
  <2>3. CASE TaskReturns(r)
    <3> DEFINE new == [run[r] EXCEPT !.fn = "returned"]
    <3>1. run[r].fn = "active" /\ run' = [run EXCEPT ![r] = new] /\ UNCHANGED <<running, manualQueue>>
      BY <2>3 DEF TaskReturns, Active, manualVars
    <3>2. /\ new \in RunRecord /\ new.pc = run[r].pc /\ new.job = run[r].job /\ new.row = run[r].row
          /\ Sound(new) /\ new.watched = run[r].watched /\ run[r].pc # "queued"
      BY <2>0, <3>1 DEF RunRecord, Sound
    <3>3. run'[r] = new
      BY <3>1
    <3> HIDE DEF new
    <3>4. Holds(r)' => Holds(r)
      BY <3>2, <3>3 DEF Holds, Forbids
    <3> HIDE DEF Holds, Sound
    <3> QED
      BY <3>1, <3>2, <3>4, RunMoves
  <2>4. CASE ReceiveResult(r)
    <3> DEFINE new == [run[r] EXCEPT !.pc = "recording"]
    <3>1. run[r].pc = "waiting" /\ run[r].fn = "returned" /\ run' = [run EXCEPT ![r] = new]
            /\ EndRun(r) /\ manualQueue' = manualQueue
      BY <2>4 DEF ReceiveResult, manualVars
    <3>2. /\ new \in RunRecord /\ new.pc = "recording" /\ new.job = run[r].job /\ new.row = run[r].row
          /\ Sound(new) /\ new.watched = FALSE
      BY <2>0, <3>1 DEF RunRecord, RunPCs, Sound
    <3>3. run'[r] = new
      BY <3>1
    <3> HIDE DEF new
    <3>4. ~Holds(r)' /\ (Forbids(r) => Holds(r))
      BY <3>1, <3>2, <3>3 DEF Holds, Forbids
    <3>5. IF Forbids(r) THEN running' = running \ {run[r].job} ELSE running' = running
      BY <3>1 DEF EndRun
    <3> HIDE DEF Holds, Sound, Forbids
    <3> QED
      BY <3>1, <3>2, <3>4, <3>5, RunMoves
  <2>5. CASE DeadlinePasses(r)
    <3> DEFINE new == [run[r] EXCEPT !.pc = "recording", !.watched = TRUE]
    <3>1. run[r].pc = "waiting" /\ run' = [run EXCEPT ![r] = new] /\ UNCHANGED <<running, manualQueue>>
      BY <2>0, <2>5 DEF DeadlinePasses, manualVars, RunRecord
    <3>2. /\ new \in RunRecord /\ new.pc = "recording" /\ new.job = run[r].job /\ new.row = run[r].row
          /\ Sound(new)
      BY <2>0, <3>1 DEF RunRecord, RunPCs, Sound
    <3>3. run'[r] = new
      BY <3>1
    <3> HIDE DEF new
    <3>4. Holds(r)' => Holds(r)
      BY <3>1, <3>2, <3>3 DEF Holds, Forbids
    <3> HIDE DEF Holds, Sound
    <3> QED
      BY <3>1, <3>2, <3>4, RunMoves
  <2>6. CASE LateRelease(r)
    <3> DEFINE new == [run[r] EXCEPT !.watched = FALSE]
    <3>1. run[r].watched /\ run[r].fn = "returned" /\ run' = [run EXCEPT ![r] = new]
            /\ EndRun(r) /\ manualQueue' = manualQueue
      BY <2>6 DEF LateRelease, manualVars
    <3>2. /\ new \in RunRecord /\ new.pc = run[r].pc /\ new.job = run[r].job /\ new.row = run[r].row
          /\ Sound(new) /\ new.watched = FALSE /\ run[r].pc \notin {"queued", "begun", "waiting"}
      BY <2>0, <3>1 DEF RunRecord, Sound
    <3>3. run'[r] = new
      BY <3>1
    <3> HIDE DEF new
    <3>4. ~Holds(r)' /\ (Forbids(r) => Holds(r))
      BY <3>1, <3>2, <3>3 DEF Holds, Forbids
    <3>5. IF Forbids(r) THEN running' = running \ {run[r].job} ELSE running' = running
      BY <3>1 DEF EndRun
    <3> HIDE DEF Holds, Sound, Forbids
    <3> QED
      BY <3>1, <3>2, <3>4, <3>5, RunMoves
  <2>7. CASE RecordRun(r)
    <3> DEFINE new == [run[r] EXCEPT !.pc = "done"]
    <3>1. run[r].pc = "recording" /\ run' = [run EXCEPT ![r] = new] /\ UNCHANGED <<running, manualQueue>>
      BY <2>7 DEF RecordRun, Return, ManualPool!Done, manualVars
    <3>2. /\ new \in RunRecord /\ new.pc = "done" /\ new.job = run[r].job /\ new.row = run[r].row
          /\ Sound(new) /\ new.watched = run[r].watched
      BY <2>0, <3>1 DEF RunRecord, RunPCs, Sound
    <3>3. run'[r] = new
      BY <3>1
    <3> HIDE DEF new
    <3>4. Holds(r)' => Holds(r)
      BY <3>1, <3>2, <3>3 DEF Holds, Forbids
    <3> HIDE DEF Holds, Sound
    <3> QED
      BY <3>1, <3>2, <3>4, RunMoves
  <2> QED
    BY <1>4, <2>1, <2>2, <2>3, <2>4, <2>5, <2>6, <2>7 DEF RunStep
<1>5. ASSUME NEW h \in Requests, Select(h) \/ Save(h) \/ Apply(h) \/ Audit(h) \/ WriteLog(h) PROVE RunInv'
  BY <1>5, RunKept DEF Select, Save, Apply, Audit, WriteLog, manualVars
<1>6. ASSUME NEW h \in Requests, NEW op \in Operations, NEW ids \in SUBSET Jobs, NEW row \in Row \cup {None},
             NEW status \in Statuses, Enter(h, op, ids, row, status)
      PROVE RunInv'
  BY <1>6, RunKept DEF Enter, manualVars
<1>7. ASSUME TakeLog \/ PoolWritesLog PROVE RunInv'
  BY <1>7, RunKept DEF TakeLog, PoolWritesLog, manualVars
<1>8. ASSUME StartScheduler \/ Signal \/ ShutdownStep PROVE RunInv'
  BY <1>8, RunKept DEF StartScheduler, Signal, ShutdownStep, EndHTTP, CloseManualPool, CloseLogPool,
       EndAsync, EndCallbacks, EndTasks, StopSchedulerTimesOut, OnlyStage, ManualPool!Close, manualVars
<1> QED
  BY <1>1, <1>2, <1>3, <1>4, <1>5, <1>6, <1>7, <1>8 DEF Next, HandlerStep, PoolStep

-----------------------------------------------------------------------------
Inv == HandlerInv /\ EntryInv /\ RunInv

LEMMA InvAlways == Spec => []Inv
<1>1. Init => Inv
  BY HandlerInit, EntryInit, RunInit DEF Inv
<1>2. Inv /\ [Next]_vars => Inv'
  <2> SUFFICES ASSUME Inv, [Next]_vars PROVE Inv'
    OBVIOUS
  <2>1. CASE Next
    BY <2>1, HandlerNext, EntryNext, RunNext DEF Inv
  <2>2. CASE UNCHANGED vars
    <3>1. HandlerInv'
      BY <2>2 DEF Inv, HandlerInv, Knows, vars, jobVars
    <3>2. EntryInv'
      BY <2>2, EntryKept DEF Inv, vars, jobVars, stageVars
    <3>3. RunInv'
      BY <2>2, RunKept DEF Inv, vars, manualVars
    <3> QED
      BY <3>1, <3>2, <3>3 DEF Inv
  <2> QED
    BY <2>1, <2>2
<1> QED
  BY <1>1, <1>2, PTL DEF Spec

\* job.go holds jobWriteMu over a write and the change of the cron entries, so
\* outside that section cron runs what the table says, however often writes
\* fail, and a row that cannot be loaded never keeps an older entry alive.
THEOREM EntriesMatchTableAlways == Spec => []EntriesMatchTable
<1>1. Inv => EntriesMatchTable
  BY DEF Inv, EntryInv, EntriesMatchTable, Applying
<1> QED
  BY <1>1, InvAlways, PTL

\* beginRun and the late release of job_scheduler.go: two runs of a job that
\* forbid overlapping never execute together, because the mark of a job is held
\* by one call at most, the one whose function outlives its deadline included.
THEOREM ForbiddenRunsAloneAlways == Spec => []ForbiddenRunsAlone
<1>1. Inv => ForbiddenRunsAlone
  <2> SUFFICES ASSUME RunInv, NEW r \in DOMAIN run, NEW q \in DOMAIN run, run[r].job = run[q].job,
                      Forbids(r), Forbids(q), Active(r), Active(q)
               PROVE r = q
    BY DEF Inv, ForbiddenRunsAlone
  <2>1. Holds(r) /\ Holds(q)
    BY DEF RunInv, Sound, Holds, Active
  <2> QED
    BY <2>1 DEF RunInv
<1> QED
  BY <1>1, InvAlways, PTL

-----------------------------------------------------------------------------
(* The pools and the shutdown.                                             *)

Elements(q) == {q[i] : i \in DOMAIN q}

\* Requests are numbered in the order they come.
OrderInv == \E n \in Nat : Received = 1..n

\* A request has ended exactly if its log is in the pool or was tried.
LogInv ==
    /\ logQueue \in Seq(Requests) /\ Len(logQueue) <= Capacity
    /\ logBusy \subseteq Requests /\ Cardinality(logBusy) <= Workers
    /\ logged \subseteq Requests
    /\ logged \cup logBusy \cup Elements(logQueue) = {h \in Requests : handler[h] = At("done")}

\* The pool holds exactly the manual runs that have not ended.
ManualInv ==
    /\ Len(manualQueue) <= Capacity
    /\ Elements(manualQueue) = {r \in DOMAIN run : run[r].pc = "queued"}
    /\ \A r \in DOMAIN run : run[r].pc = "queued" => run[r].via = "pool"
    /\ manualBusy = {r \in DOMAIN run : run[r].via = "pool" /\ run[r].pc \notin {"queued", "done"}}
    /\ Cardinality(manualBusy) <= Workers

PoolsEmpty == manualQueue = <<>> /\ manualBusy = {} /\ logQueue = <<>> /\ logBusy = {}

\* What a stage that did not time out leaves behind it stays as it left it:
\* requests come only while the process serves, runs only while cron is on or
\* from a pool that is open.
StageInv ==
    /\ stage \in Stages /\ late \subseteq {"http", "async", "scheduler"} /\ cronOn \in BOOLEAN
    /\ stage = "loading" => run = <<>> /\ PoolsEmpty
    /\ cronOn => stage \in {"serving", "http", "async"}
    /\ stage \in {"async", "callbacks", "tasks", "closed"} /\ "http" \notin late => InFlight = {}
    /\ stage \in {"callbacks", "tasks"} => manualClosed /\ logClosed
    /\ stage \in {"callbacks", "tasks", "closed"} /\ "async" \notin late => PoolsEmpty
    /\ stage \in {"tasks", "closed"} /\ late \cap {"async", "scheduler"} = {} =>
         \A r \in DOMAIN run : run[r].pc = "done" /\ (stage = "closed" => ~Active(r))

-----------------------------------------------------------------------------
LEMMA Appended ==
    ASSUME NEW S, NEW q \in Seq(S), NEW x \in S
    PROVE  /\ Append(q, x) \in Seq(S) /\ Len(Append(q, x)) = Len(q) + 1
           /\ Elements(Append(q, x)) = Elements(q) \cup {x}
<1>1. /\ Append(q, x) \in Seq(S) /\ Len(Append(q, x)) = Len(q) + 1 /\ Len(q) \in Nat
      /\ DOMAIN Append(q, x) = 1..(Len(q) + 1) /\ DOMAIN q = 1..Len(q)
      /\ Append(q, x)[Len(q) + 1] = x
      /\ \A i \in DOMAIN q : Append(q, x)[i] = q[i]
  OBVIOUS
<1>2. \A i \in DOMAIN Append(q, x) : i \in DOMAIN q \/ i = Len(q) + 1
  BY <1>1
<1>3. \A i \in DOMAIN q : i \in DOMAIN Append(q, x)
  BY <1>1
<1>4. Len(q) + 1 \in DOMAIN Append(q, x)
  BY <1>1
<1> QED
  BY <1>1, <1>2, <1>3, <1>4 DEF Elements

LEMMA Taken ==
    ASSUME NEW S, NEW q \in Seq(S), q # <<>>
    PROVE  /\ Tail(q) \in Seq(S) /\ Len(Tail(q)) = Len(q) - 1 /\ Len(q) \in Nat
           /\ Elements(q) = Elements(Tail(q)) \cup {Head(q)}
<1>1. /\ Tail(q) \in Seq(S) /\ Len(Tail(q)) = Len(q) - 1 /\ Len(q) \in Nat /\ Len(q) > 0
      /\ DOMAIN Tail(q) = 1..(Len(q) - 1) /\ DOMAIN q = 1..Len(q) /\ Head(q) = q[1]
      /\ \A i \in DOMAIN Tail(q) : Tail(q)[i] = q[i + 1]
  OBVIOUS
<1>2. \A i \in DOMAIN q : i = 1 \/ (i - 1 \in DOMAIN Tail(q) /\ (i - 1) + 1 = i)
  BY <1>1
<1>3. \A i \in DOMAIN Tail(q) : i + 1 \in DOMAIN q
  BY <1>1
<1>4. 1 \in DOMAIN q
  BY <1>1
<1>5. \A i \in DOMAIN q : q[i] \in Elements(Tail(q)) \cup {Head(q)}
  BY <1>1, <1>2 DEF Elements
<1>6. \A i \in DOMAIN Tail(q) : Tail(q)[i] \in Elements(q)
  BY <1>1, <1>3 DEF Elements
<1>7. Head(q) \in Elements(q)
  BY <1>1, <1>4 DEF Elements
<1> QED
  BY <1>1, <1>5, <1>6, <1>7 DEF Elements

\* The library's operators are the same ones inside the instances of Pool.
LEMMA SameCardinality ==
    \A S : LogPool!Cardinality(S) = Cardinality(S) /\ ManualPool!Cardinality(S) = Cardinality(S)
BY DEF LogPool!Cardinality, ManualPool!Cardinality, Cardinality, LogPool!IsFiniteSet, ManualPool!IsFiniteSet, IsFiniteSet

\* Taking work keeps the workers within their number, ending it too.
LEMMA BusyBounded ==
    ASSUME NEW busy, IsFiniteSet(busy), Cardinality(busy) <= Workers, NEW work
    PROVE  /\ Cardinality(busy) < Workers => Cardinality(busy \cup {work}) <= Workers
           /\ Cardinality(busy \ {work}) <= Workers
<1>1. Cardinality(busy) \in Nat /\ Workers \in Nat
  BY FS_CardinalityType, PoolAssumption
<1>2. Cardinality(busy \cup {work}) \in {Cardinality(busy), Cardinality(busy) + 1}
  BY FS_AddElement
<1>3. Cardinality(busy \ {work}) \in {Cardinality(busy), Cardinality(busy) - 1}
  BY FS_RemoveElement
<1> QED
  BY <1>1, <1>2, <1>3

-----------------------------------------------------------------------------
(* Requests and their logs *)

\* A step of a request's: only the middleware's last one ends it.
LEMMA StepOfHandler ==
    ASSUME HandlerInv, NEW h \in Requests, HandlerStep(h)
    PROVE  /\ handler[h] \notin {At("none"), At("done")}
           /\ \E new : /\ handler' = [handler EXCEPT ![h] = new] /\ new # At("none")
                       /\ \/ new # At("done") /\ UNCHANGED logVars
                          \/ new = At("done") /\ LogPool!Submit(h) /\ logged' = logged
                          \/ new = At("done") /\ WriteLog(h)
<1>1. handler[h] \notin {At("none"), At("done")}
  BY DEF HandlerStep, InFlight, Received
<1>2. \A new : new.pc \notin {"none", "done"} => new \notin {At("none"), At("done")}
  BY DEF At
<1>3. At("done") # At("none") /\ At("audit") \notin {At("none"), At("done")}
  BY DEF At
<1>4. CASE Leave(h) /\ UNCHANGED logVars
  BY <1>1, <1>3, <1>4 DEF Leave
<1>5. CASE Select(h) /\ ~Leave(h)
  <2>1. handler[h] \in Working
    BY <1>5, AtWork DEF Select
  <2> DEFINE pc == IF handler[h].op = "RunOnce" THEN "submit" ELSE "save"
             row == CASE handler[h].op = "Update" -> handler[h].row
                      [] handler[h].op = "ChangeStatus" -> [table[TheJob(h)] EXCEPT !.status = handler[h].status]
                      [] OTHER -> table[TheJob(h)]
             new == [handler[h] EXCEPT !.pc = pc, !.row = row]
  <2>2. handler' = [handler EXCEPT ![h] = new] /\ UNCHANGED logVars
    BY <1>5, <2>1 DEF Select, Working, HandlerInv
  <2>3. new.pc \in {"submit", "save"}
    BY <2>1 DEF Working
  <2> HIDE DEF new
  <2> QED
    BY <1>1, <1>2, <2>2, <2>3
<1>6. CASE Save(h) /\ ~Leave(h)
  <2>1. handler[h] \in Working
    BY <1>6, AtWork DEF Save
  <2>2. handler' = [handler EXCEPT ![h] = [handler[h] EXCEPT !.pc = "apply"]] /\ UNCHANGED logVars
    BY <1>6 DEF Save
  <2>3. [handler[h] EXCEPT !.pc = "apply"].pc = "apply"
    BY <2>1 DEF Working
  <2> QED
    BY <1>1, <1>2, <2>2, <2>3
<1>7. CASE Apply(h) /\ ~Leave(h)
  <2>1. handler[h] \in Working /\ handler[h].pc = "apply"
    BY <1>7, AtWork DEF Apply
  <2>2. PICK j : handler' = [handler EXCEPT ![h] = [handler[h] EXCEPT !.ids = @ \ {j}]] /\ UNCHANGED logVars
    BY <1>7 DEF Apply
  <2>3. [handler[h] EXCEPT !.ids = @ \ {j}].pc = "apply"
    BY <2>1 DEF Working
  <2> QED
    BY <1>1, <1>2, <2>2, <2>3
<1>8. CASE Audit(h)
  <2>1. CASE LogPool!Submit(h) /\ handler' = [handler EXCEPT ![h] = At("done")]
    BY <1>1, <1>3, <1>8, <2>1 DEF Audit
  <2>2. CASE handler' = [handler EXCEPT ![h] = [handler[h] EXCEPT !.pc = "writeLog"]] /\ UNCHANGED logVars
    <3>1. handler[h] \in Working \cup Away
      BY DEF HandlerInv
    <3>2. [handler[h] EXCEPT !.pc = "writeLog"].pc = "writeLog"
      BY <3>1 DEF Working, Away, At
    <3> QED
      BY <1>1, <1>2, <2>2, <3>2
  <2> QED
    BY <1>8, <2>1, <2>2 DEF Audit, logVars
<1>9. CASE WriteLog(h)
  BY <1>1, <1>3, <1>9 DEF WriteLog
<1> QED
  BY <1>4, <1>5, <1>6, <1>7, <1>8, <1>9 DEF HandlerStep, Select, Save, Apply, SubmitRun

\* The request that enters is the first that has not come.
LEMMA FirstIsNew ==
    ASSUME OrderInv, NEW h \in Requests, h = Cardinality(Received) + 1
    PROVE  handler[h] = At("none") /\ Received \cup {h} = 1..h
<1>1. PICK n \in Nat : Received = 1..n
  BY DEF OrderInv
<1>2. Cardinality(1..n) = n
  BY FS_Interval
<1>3. h = n + 1
  BY <1>1, <1>2
<1> QED
  BY <1>1, <1>3 DEF Received

\* The steps of nobody's request.
OtherStep ==
    \/ \E j \in Jobs : Fire(j)
    \/ \E r \in DOMAIN run : RunStep(r) \/ TaskReturns(r)
    \/ PoolStep \/ StartScheduler \/ Signal \/ ShutdownStep

LEMMA OthersLeaveRequests == ASSUME OtherStep PROVE handler' = handler
BY DEF OtherStep, Fire, RunStep, TaskReturns, PoolStep, StartScheduler, Signal, ShutdownStep, BeginRun,
   StartTask, ReceiveResult, DeadlinePasses, LateRelease, RecordRun, TakeRun, TakeLog, PoolWritesLog,
   EndHTTP, CloseManualPool, CloseLogPool, EndAsync, EndCallbacks, EndTasks, StopSchedulerTimesOut, OnlyStage

LEMMA OrderNext == ASSUME HandlerInv, OrderInv, Next PROVE OrderInv'
<1>1. CASE handler' = handler
  BY <1>1 DEF OrderInv, Received
<1>2. ASSUME NEW h \in Requests, NEW op \in Operations, NEW ids \in SUBSET Jobs, NEW row \in Row \cup {None},
             NEW status \in Statuses, Enter(h, op, ids, row, status)
      PROVE OrderInv'
  <2>1. h = Cardinality(Received) + 1 /\ h \in Nat
    BY <1>2, BoundsAssumption DEF Enter, Requests
  <2>2. handler'[h] # At("none") /\ \A g \in Requests : g # h => handler'[g] = handler[g]
    BY <1>2 DEF Enter, HandlerInv, At
  <2>3. Received' = Received \cup {h}
    BY <2>2 DEF Received
  <2> QED
    BY <2>1, <2>3, FirstIsNew DEF OrderInv
<1>3. ASSUME NEW h \in Requests, HandlerStep(h) PROVE OrderInv'
  <2>1. Received' = Received
    BY <1>3, StepOfHandler DEF Received, HandlerInv
  <2> QED
    BY <2>1 DEF OrderInv
<1> QED
  BY <1>1, <1>2, <1>3, OthersLeaveRequests DEF Next, OtherStep

LEMMA LogsFinite == ASSUME LogInv PROVE IsFiniteSet(logBusy)
BY FS_Interval, FS_Subset, BoundsAssumption DEF LogInv, Requests

LEMMA LogNext == ASSUME HandlerInv, OrderInv, LogInv, Next PROVE LogInv'
<1>1. CASE handler' = handler /\ UNCHANGED <<logQueue, logBusy, logged>>
  BY <1>1 DEF LogInv, Elements
<1>2. ASSUME NEW h \in Requests, NEW op \in Operations, NEW ids \in SUBSET Jobs, NEW row \in Row \cup {None},
             NEW status \in Statuses, Enter(h, op, ids, row, status)
      PROVE LogInv'
  <2>1. handler[h] # At("done") /\ UNCHANGED logVars
    BY <1>2, FirstIsNew DEF Enter, At
  <2>2. handler'[h] # At("done") /\ \A g \in Requests : g # h => handler'[g] = handler[g]
    BY <1>2 DEF Enter, HandlerInv, At
  <2> QED
    BY <2>1, <2>2 DEF LogInv, Elements, logVars
<1>3. ASSUME NEW h \in Requests, HandlerStep(h) PROVE LogInv'
  <2>1. handler[h] # At("done")
    BY <1>3, StepOfHandler
  <2>2. PICK new : /\ handler' = [handler EXCEPT ![h] = new]
                   /\ \/ new # At("done") /\ UNCHANGED logVars
                      \/ new = At("done") /\ LogPool!Submit(h) /\ logged' = logged
                      \/ new = At("done") /\ WriteLog(h)
    BY <1>3, StepOfHandler
  <2>3. handler'[h] = new /\ \A g \in Requests : g # h => handler'[g] = handler[g]
    BY <2>2 DEF HandlerInv
  <2>4. CASE new # At("done") /\ UNCHANGED logVars
    BY <2>1, <2>3, <2>4 DEF LogInv, Elements, logVars
  <2>5. CASE new = At("done") /\ LogPool!Submit(h) /\ logged' = logged
    <3>1. /\ logQueue' = Append(logQueue, h) /\ logBusy' = logBusy /\ logged' = logged
          /\ Len(logQueue) < Capacity /\ Len(logQueue) \in Nat /\ Capacity \in Nat
      BY <2>5, PoolAssumption DEF LogPool!Submit, LogPool!Admits, LogInv
    <3>2. logQueue' \in Seq(Requests) /\ Len(logQueue') <= Capacity /\ Elements(logQueue') = Elements(logQueue) \cup {h}
      BY <3>1, Appended DEF LogInv
    <3>3. Elements(logQueue)' = Elements(logQueue')
      BY DEF Elements
    <3> HIDE DEF Elements
    <3> QED
      BY <2>3, <2>5, <3>1, <3>2, <3>3 DEF LogInv
  <2>6. CASE new = At("done") /\ WriteLog(h)
    <3>1. logged' = logged \cup {h} /\ UNCHANGED <<logQueue, logBusy>>
      BY <2>6 DEF WriteLog
    <3> QED
      BY <2>3, <2>6, <3>1 DEF LogInv, Elements
  <2> QED BY <2>2, <2>4, <2>5, <2>6
<1>4. ASSUME TakeLog PROVE LogInv'
  <2>1. /\ logQueue # <<>> /\ Cardinality(logBusy) < Workers /\ logBusy' = logBusy \cup {Head(logQueue)}
        /\ logQueue' = Tail(logQueue) /\ UNCHANGED <<handler, logged>>
    BY <1>4, SameCardinality DEF TakeLog, LogPool!Take
  <2>2. /\ logQueue' \in Seq(Requests) /\ Len(logQueue') = Len(logQueue) - 1 /\ Len(logQueue) \in Nat
        /\ Elements(logQueue) = Elements(logQueue') \cup {Head(logQueue)}
    BY <2>1, Taken DEF LogInv
  <2>3. Len(logQueue') <= Capacity
    BY <2>2, PoolAssumption DEF LogInv
  <2>4. Cardinality(logBusy') <= Workers
    BY <2>1, LogsFinite, BusyBounded DEF LogInv
  <2>5. Head(logQueue) \in Requests
    BY <2>1 DEF LogInv
  <2>6. Elements(logQueue)' = Elements(logQueue')
    BY DEF Elements
  <2> HIDE DEF Elements
  <2> QED
    BY <2>1, <2>2, <2>3, <2>4, <2>5, <2>6 DEF LogInv
<1>5. ASSUME PoolWritesLog PROVE LogInv'
  <2>1. PICK h \in logBusy : logBusy' = logBusy \ {h} /\ logQueue' = logQueue /\ logged' = logged \cup {h}
                               /\ handler' = handler
    BY <1>5 DEF PoolWritesLog, LogPool!Done
  <2>2. Cardinality(logBusy') <= Workers
    BY <2>1, LogsFinite, BusyBounded DEF LogInv
  <2> QED
    BY <2>1, <2>2 DEF LogInv, Elements
<1>6. CASE OtherStep /\ ~TakeLog /\ ~PoolWritesLog
  <2>1. UNCHANGED <<logQueue, logBusy, logged>>
    BY <1>6 DEF OtherStep, Fire, RunStep, TaskReturns, PoolStep, StartScheduler, Signal, ShutdownStep, BeginRun,
       StartTask, ReceiveResult, DeadlinePasses, LateRelease, RecordRun, TakeRun, EndHTTP, CloseManualPool,
       CloseLogPool, LogPool!Close, EndAsync, EndCallbacks, EndTasks, StopSchedulerTimesOut, OnlyStage, logVars
  <2> QED
    BY <1>1, <1>6, <2>1, OthersLeaveRequests
<1> QED
  BY <1>2, <1>3, <1>4, <1>5, <1>6 DEF Next, OtherStep

-----------------------------------------------------------------------------
(* The runs in the pool *)

LEMMA ManualFinite == ASSUME RunInv, ManualInv PROVE IsFiniteSet(manualBusy)
<1>1. manualBusy \subseteq 1..Len(run) /\ Len(run) \in Nat
  BY DEF RunInv, ManualInv
<1>2. IsFiniteSet(1..Len(run))
  BY <1>1, FS_Interval
<1> QED
  BY <1>1, <1>2, FS_Subset

\* A run that has left the queue goes on, or ends and leaves its worker.
LEMMA ManualMoves ==
    ASSUME RunInv, ManualInv, NEW r \in DOMAIN run, NEW new, run' = [run EXCEPT ![r] = new],
           new.via = run[r].via, run[r].pc # "queued", new.pc # "queued", manualQueue' = manualQueue,
           \/ (new.pc = "done" <=> run[r].pc = "done") /\ manualBusy' = manualBusy
           \/ new.pc = "done" /\ Return(r)
    PROVE  ManualInv'
<1>1. DOMAIN run' = DOMAIN run /\ run'[r] = new /\ \A q \in DOMAIN run : q # r => run'[q] = run[q]
  BY DEF RunInv
<1>2. manualBusy' = IF new.pc = "done" THEN manualBusy \ {r} ELSE manualBusy
  BY DEF Return, ManualPool!Done, manualVars, ManualInv
<1>3. Cardinality(manualBusy') <= Workers
  BY <1>2, ManualFinite, BusyBounded DEF ManualInv
<1>4. Elements(manualQueue)' = Elements(manualQueue)
  BY DEF Elements
<1>5. manualBusy' = {q \in DOMAIN run' : run'[q].via = "pool" /\ run'[q].pc \notin {"queued", "done"}}
  <2>1. \A q \in manualBusy' : q \in DOMAIN run /\ run'[q].via = "pool" /\ run'[q].pc \notin {"queued", "done"}
    BY <1>1, <1>2 DEF ManualInv, Return, ManualPool!Done, manualVars
  <2>2. ASSUME NEW q \in DOMAIN run, run'[q].via = "pool", run'[q].pc \notin {"queued", "done"} PROVE q \in manualBusy'
    <3>1. q \in manualBusy
      BY <1>1, <2>2 DEF ManualInv, Return, ManualPool!Done, manualVars
    <3> QED
      BY <1>1, <1>2, <2>2, <3>1
  <2> QED
    BY <1>1, <2>1, <2>2
<1> HIDE DEF Elements
<1> QED
  BY <1>1, <1>3, <1>4, <1>5 DEF ManualInv

\* Another run: in the queue, or cron's.
LEMMA ManualAdded ==
    ASSUME RunInv, ManualInv, NEW new, run' = Append(run, new), manualBusy' = manualBusy,
           \/ new.via = "cron" /\ new.pc # "queued" /\ manualQueue' = manualQueue
           \/ new.via = "pool" /\ new.pc = "queued" /\ ManualPool!Submit(Len(run) + 1)
    PROVE  ManualInv'
<1>1. /\ Len(run) \in Nat /\ DOMAIN run = 1..Len(run) /\ DOMAIN run' = 1..(Len(run) + 1)
      /\ run'[Len(run) + 1] = new /\ \A q \in DOMAIN run : run'[q] = run[q]
  BY DEF RunInv
<1>2. \A q \in DOMAIN run' : q \in DOMAIN run \/ q = Len(run) + 1
  BY <1>1
<1>3. Len(run) + 1 \in DOMAIN run' \ DOMAIN run /\ DOMAIN run \subseteq DOMAIN run'
  BY <1>1
<1>4. manualBusy' = {q \in DOMAIN run' : run'[q].via = "pool" /\ run'[q].pc \notin {"queued", "done"}}
  BY <1>1, <1>2, <1>3 DEF ManualInv
<1>5. \A q \in DOMAIN run' : run'[q].pc = "queued" => run'[q].via = "pool"
  BY <1>1, <1>2 DEF ManualInv
<1>6. Elements(manualQueue)' = Elements(manualQueue')
  BY DEF Elements
<1>7. Len(manualQueue') <= Capacity /\ Elements(manualQueue') = {q \in DOMAIN run' : run'[q].pc = "queued"}
  <2>1. CASE new.via = "cron" /\ new.pc # "queued" /\ manualQueue' = manualQueue
    BY <1>1, <1>2, <1>3, <2>1 DEF ManualInv
  <2>2. CASE new.via = "pool" /\ new.pc = "queued" /\ ManualPool!Submit(Len(run) + 1)
    <3>1. /\ manualQueue' = Append(manualQueue, Len(run) + 1) /\ Len(manualQueue) < Capacity
          /\ Len(manualQueue) \in Nat /\ Capacity \in Nat
      BY <2>2, PoolAssumption DEF ManualPool!Submit, ManualPool!Admits, RunInv
    <3>2. Len(manualQueue') = Len(manualQueue) + 1 /\ Elements(manualQueue') = Elements(manualQueue) \cup {Len(run) + 1}
      BY <1>1, <3>1, Appended DEF RunInv
    <3> HIDE DEF Elements
    <3> QED
      BY <1>1, <1>2, <1>3, <2>2, <3>1, <3>2 DEF ManualInv
  <2> QED BY <2>1, <2>2
<1> HIDE DEF Elements
<1> QED
  BY <1>4, <1>5, <1>6, <1>7 DEF ManualInv

LEMMA ManualNext == ASSUME HandlerInv, RunInv, RunInv', ManualInv, Next PROVE ManualInv'
<1>1. CASE UNCHANGED <<run, manualQueue, manualBusy>>
  BY <1>1 DEF ManualInv, Elements
<1>2. ASSUME NEW h \in Requests, SubmitRun(h) PROVE ManualInv'
  <2>1. CASE ManualPool!Submit(Len(run) + 1)
               /\ run' = Append(run, NewRun(TheJob(h), handler[h].row, "pool", "queued"))
    BY <2>1, ManualAdded DEF NewRun, ManualPool!Submit
  <2> QED
    BY <1>1, <1>2, <2>1 DEF SubmitRun, manualVars
<1>3. ASSUME NEW j \in Jobs, Fire(j) PROVE ManualInv'
  BY <1>3, ManualAdded DEF Fire, NewRun, manualVars
<1>4. ASSUME TakeRun PROVE ManualInv'
  <2> DEFINE r == Head(manualQueue)
  <2>1. /\ manualQueue # <<>> /\ manualQueue' = Tail(manualQueue) /\ manualBusy' = manualBusy \cup {r}
        /\ Cardinality(manualBusy) < Workers /\ run' = [run EXCEPT ![r] = [run[r] EXCEPT !.pc = "fired"]]
    BY <1>4, SameCardinality DEF TakeRun, ManualPool!Take
  <2>2. /\ Len(manualQueue') = Len(manualQueue) - 1 /\ Len(manualQueue) \in Nat
        /\ Elements(manualQueue) = Elements(manualQueue') \cup {r}
    BY <2>1, Taken DEF RunInv
  <2>3. r \in DOMAIN run /\ run[r].pc = "queued" /\ run[r].via = "pool" /\ run[r] \in RunRecord
    BY <2>2 DEF ManualInv, RunInv
  <2> HIDE DEF r
  <2>4. /\ DOMAIN run' = DOMAIN run /\ run'[r].pc = "fired" /\ run'[r].via = "pool"
        /\ \A q \in DOMAIN run : q # r => run'[q] = run[q]
    BY <2>1, <2>3 DEF RunRecord
  <2>5. Elements(manualQueue') = {q \in DOMAIN run' : run'[q].pc = "queued"}
    <3>1. \A q \in Elements(manualQueue') : q \in DOMAIN run' /\ run'[q].pc = "queued"
      BY DEF RunInv, Elements
    <3> HIDE DEF Elements
    <3>2. \A q \in DOMAIN run' : run'[q].pc = "queued" => q \in Elements(manualQueue')
      BY <2>2, <2>4 DEF ManualInv
    <3> QED
      BY <3>1, <3>2
  <2>6. Len(manualQueue') <= Capacity
    BY <2>2, PoolAssumption DEF ManualInv
  <2>7. Cardinality(manualBusy') <= Workers
    BY <2>1, ManualFinite, BusyBounded DEF ManualInv
  <2>8. manualBusy' = {q \in DOMAIN run' : run'[q].via = "pool" /\ run'[q].pc \notin {"queued", "done"}}
    BY <2>1, <2>3, <2>4 DEF ManualInv
  <2>9. Elements(manualQueue)' = Elements(manualQueue')
    BY DEF Elements
  <2> HIDE DEF Elements
  <2> QED
    BY <2>4, <2>5, <2>6, <2>7, <2>8, <2>9 DEF ManualInv
<1>5. ASSUME NEW r \in DOMAIN run, RunStep(r) \/ TaskReturns(r) PROVE ManualInv'
  <2>0. run[r] \in RunRecord /\ Sound(run[r]) /\ manualQueue' = manualQueue
    BY <1>5 DEF RunInv, RunStep, TaskReturns, BeginRun, StartTask, ReceiveResult, DeadlinePasses, LateRelease,
       RecordRun, Return, ManualPool!Done, manualVars
  <2>1. CASE BeginRun(r)
    <3> DEFINE new(to) == [run[r] EXCEPT !.pc = to]
    <3>1. /\ run[r].pc = "fired"
          /\ \/ run' = [run EXCEPT ![r] = new("done")] /\ Return(r)
             \/ run' = [run EXCEPT ![r] = new("begun")] /\ manualBusy' = manualBusy
      BY <2>1 DEF BeginRun, manualVars
    <3>2. \A to \in {"done", "begun"} : new(to).via = run[r].via /\ new(to).pc = to
      BY <2>0 DEF RunRecord
    <3> HIDE DEF new
    <3>3. CASE run' = [run EXCEPT ![r] = new("done")] /\ Return(r)
      BY <2>0, <3>1, <3>2, <3>3, ManualMoves
    <3>4. CASE run' = [run EXCEPT ![r] = new("begun")] /\ manualBusy' = manualBusy
      BY <2>0, <3>1, <3>2, <3>4, ManualMoves
    <3> QED
      BY <3>1, <3>3, <3>4
  <2>2. CASE StartTask(r)
    <3> DEFINE new == [run[r] EXCEPT !.pc = "waiting", !.fn = "active"]
    <3>1. run[r].pc = "begun" /\ run' = [run EXCEPT ![r] = new] /\ manualBusy' = manualBusy
      BY <2>0, <2>2 DEF StartTask, manualVars, RunRecord
    <3>2. new.via = run[r].via /\ new.pc = "waiting"
      BY <2>0 DEF RunRecord
    <3> HIDE DEF new
    <3> QED
      BY <2>0, <3>1, <3>2, ManualMoves
  <2>3. CASE TaskReturns(r)
    <3> DEFINE new == [run[r] EXCEPT !.fn = "returned"]
    <3>1. run[r].pc # "queued" /\ run' = [run EXCEPT ![r] = new] /\ manualBusy' = manualBusy
      BY <2>0, <2>3 DEF TaskReturns, Active, Sound, manualVars
    <3>2. new.via = run[r].via /\ new.pc = run[r].pc
      BY <2>0 DEF RunRecord
    <3> HIDE DEF new
    <3> QED
      BY <2>0, <3>1, <3>2, ManualMoves
  <2>4. CASE ReceiveResult(r)
    <3> DEFINE new == [run[r] EXCEPT !.pc = "recording"]
    <3>1. run[r].pc = "waiting" /\ run' = [run EXCEPT ![r] = new] /\ manualBusy' = manualBusy
      BY <2>0, <2>4 DEF ReceiveResult, manualVars
    <3>2. new.via = run[r].via /\ new.pc = "recording"
      BY <2>0 DEF RunRecord
    <3> HIDE DEF new
    <3> QED
      BY <2>0, <3>1, <3>2, ManualMoves
  <2>5. CASE DeadlinePasses(r)
    <3> DEFINE new == [run[r] EXCEPT !.pc = "recording", !.watched = TRUE]
    <3>1. run[r].pc = "waiting" /\ run' = [run EXCEPT ![r] = new] /\ manualBusy' = manualBusy
      BY <2>0, <2>5 DEF DeadlinePasses, manualVars, RunRecord
    <3>2. new.via = run[r].via /\ new.pc = "recording"
      BY <2>0 DEF RunRecord
    <3> HIDE DEF new
    <3> QED
      BY <2>0, <3>1, <3>2, ManualMoves
  <2>6. CASE LateRelease(r)
    <3> DEFINE new == [run[r] EXCEPT !.watched = FALSE]
    <3>1. run[r].pc # "queued" /\ run' = [run EXCEPT ![r] = new] /\ manualBusy' = manualBusy
      BY <2>0, <2>6 DEF LateRelease, Sound, manualVars
    <3>2. new.via = run[r].via /\ new.pc = run[r].pc
      BY <2>0 DEF RunRecord
    <3> HIDE DEF new
    <3> QED
      BY <2>0, <3>1, <3>2, ManualMoves
  <2>7. CASE RecordRun(r)
    <3> DEFINE new == [run[r] EXCEPT !.pc = "done"]
    <3>1. run[r].pc = "recording" /\ run' = [run EXCEPT ![r] = new] /\ Return(r)
      BY <2>7 DEF RecordRun
    <3>2. new.via = run[r].via /\ new.pc = "done"
      BY <2>0 DEF RunRecord
    <3> HIDE DEF new
    <3> QED
      BY <2>0, <3>1, <3>2, ManualMoves
  <2> QED
    BY <1>5, <2>1, <2>2, <2>3, <2>4, <2>5, <2>6, <2>7 DEF RunStep
<1>6. ASSUME NEW h \in Requests, Select(h) \/ Save(h) \/ Apply(h) \/ Audit(h) \/ WriteLog(h) PROVE ManualInv'
  BY <1>1, <1>6 DEF Select, Save, Apply, Audit, WriteLog, manualVars
<1>7. ASSUME NEW h \in Requests, NEW op \in Operations, NEW ids \in SUBSET Jobs, NEW row \in Row \cup {None},
             NEW status \in Statuses, Enter(h, op, ids, row, status)
      PROVE ManualInv'
  BY <1>1, <1>7 DEF Enter, manualVars
<1>8. ASSUME TakeLog \/ PoolWritesLog \/ StartScheduler \/ Signal \/ ShutdownStep PROVE ManualInv'
  BY <1>1, <1>8 DEF TakeLog, PoolWritesLog, StartScheduler, Signal, ShutdownStep, EndHTTP, CloseManualPool,
     CloseLogPool, EndAsync, EndCallbacks, EndTasks, StopSchedulerTimesOut, OnlyStage, ManualPool!Close, manualVars
<1> QED
  BY <1>2, <1>3, <1>4, <1>5, <1>6, <1>7, <1>8 DEF Next, HandlerStep, PoolStep

-----------------------------------------------------------------------------
(* The stages of the shutdown *)

\* A step of an actor of the process: the stage stays, nobody comes in flight.
LEMMA StageKept ==
    ASSUME StageInv, UNCHANGED <<stageVars, manualClosed, logClosed>>, stage # "loading",
           InFlight = {} => InFlight' = {},
           PoolsEmpty => PoolsEmpty',
           stage = "tasks" /\ late \cap {"async", "scheduler"} = {} =>
               ((\A r \in DOMAIN run : run[r].pc = "done") => \A r \in DOMAIN run' : run'[r].pc = "done"),
           stage = "closed" => run' = run
    PROVE  StageInv'
<1> USE DEF StageInv, stageVars, Active
<1>1. /\ stage' \in {"async", "callbacks", "tasks", "closed"} /\ "http" \notin late' => InFlight' = {}
      /\ stage' \in {"callbacks", "tasks", "closed"} /\ "async" \notin late' => PoolsEmpty'
  OBVIOUS
<1>2. stage' \in {"tasks", "closed"} /\ late' \cap {"async", "scheduler"} = {} =>
         \A r \in DOMAIN run' : run'[r].pc = "done" /\ (stage' = "closed" => ~Active(r)')
  OBVIOUS
<1> HIDE DEF PoolsEmpty, InFlight, Active
<1> QED
  BY <1>1, <1>2

LEMMA StageNext ==
    ASSUME HandlerInv, OrderInv, EntryInv, RunInv, ManualInv, StageInv, Next
    PROVE  StageInv'
<1>1. ASSUME NEW h \in Requests, NEW op \in Operations, NEW ids \in SUBSET Jobs, NEW row \in Row \cup {None},
             NEW status \in Statuses, Enter(h, op, ids, row, status)
      PROVE StageInv'
  BY <1>1 DEF Enter, StageInv, stageVars, PoolsEmpty, manualVars, logVars
<1>2. ASSUME NEW h \in Requests, HandlerStep(h) PROVE StageInv'
  <2>1. stage \notin {"loading", "closed"} /\ h \in InFlight
    BY <1>2 DEF HandlerStep, InFlight, Received, EntryInv
  <2>2. /\ UNCHANGED stageVars
        /\ \/ UNCHANGED <<run, manualVars>>
           \/ ~manualClosed /\ manualClosed' = manualClosed
        /\ \/ UNCHANGED <<logQueue, logBusy, logClosed>>
           \/ ~logClosed /\ logClosed' = logClosed
    BY <1>2 DEF HandlerStep, Select, Save, Apply, SubmitRun, Audit, WriteLog, ManualPool!Submit, ManualPool!Admits,
       LogPool!Submit, LogPool!Admits, manualVars, logVars
  <2> HIDE DEF InFlight
  <2> QED
    BY <2>1, <2>2 DEF StageInv, stageVars, PoolsEmpty, manualVars
<1>3. ASSUME NEW j \in Jobs, Fire(j) PROVE StageInv'
  <2>1. cronOn /\ UNCHANGED <<stageVars, handler, manualVars, logVars>>
    BY <1>3 DEF Fire
  <2> QED
    BY <2>1 DEF StageInv, stageVars, PoolsEmpty, manualVars, logVars, InFlight, Received
<1>4. ASSUME NEW r \in DOMAIN run, RunStep(r) \/ TaskReturns(r) PROVE StageInv'
  <2>1. /\ UNCHANGED <<stageVars, handler, logVars, manualQueue, manualClosed>>
        /\ manualBusy' = manualBusy \/ manualBusy' = manualBusy \ {r}
        /\ stage # "closed"
    BY <1>4 DEF RunStep, TaskReturns, BeginRun, StartTask, ReceiveResult, DeadlinePasses, LateRelease, RecordRun,
       Return, ManualPool!Done, manualVars
  <2>2. stage # "loading"
    BY <1>4 DEF StageInv
  <2>3. (\A q \in DOMAIN run : run[q].pc = "done") => \A q \in DOMAIN run' : run'[q].pc = "done"
    <3>1. SUFFICES ASSUME \A q \in DOMAIN run : run[q].pc = "done" PROVE \A q \in DOMAIN run' : run'[q].pc = "done"
      OBVIOUS
    <3>2. run[r].pc = "done" /\ run[r] \in RunRecord
      BY <3>1 DEF RunInv
    <3>3. run' = [run EXCEPT ![r].watched = FALSE] \/ run' = [run EXCEPT ![r].fn = "returned"]
      BY <1>4, <3>2 DEF RunStep, TaskReturns, BeginRun, StartTask, ReceiveResult, DeadlinePasses, LateRelease, RecordRun
    <3> QED
      BY <3>1, <3>2, <3>3 DEF RunInv, RunRecord
  <2>4. InFlight' = InFlight /\ (PoolsEmpty => PoolsEmpty') /\ UNCHANGED <<stageVars, manualClosed, logClosed>>
    BY <2>1 DEF PoolsEmpty, logVars, InFlight, Received
  <2> HIDE DEF PoolsEmpty, InFlight, StageInv, stageVars
  <2> QED
    BY <2>1, <2>2, <2>3, <2>4, StageKept
<1>5. ASSUME PoolStep PROVE StageInv'
  <2>1. /\ UNCHANGED <<stageVars, handler, manualClosed, logClosed>> /\ stage # "closed" /\ ~PoolsEmpty
        /\ run' = run \/ manualQueue # <<>>
    BY <1>5 DEF PoolStep, TakeRun, TakeLog, PoolWritesLog, ManualPool!Take, LogPool!Take, LogPool!Done, PoolsEmpty,
       manualVars, logVars
  <2>2. stage # "loading" /\ (stage = "tasks" /\ "async" \notin late => FALSE)
    BY <2>1 DEF StageInv
  <2>3. InFlight' = InFlight
    BY <2>1 DEF InFlight, Received
  <2>4. stage = "tasks" /\ late \cap {"async", "scheduler"} = {} => "async" \notin late
    OBVIOUS
  <2> HIDE DEF PoolsEmpty, InFlight, StageInv, stageVars
  <2> QED
    BY <2>1, <2>2, <2>3, <2>4, StageKept
<1>6. ASSUME StartScheduler PROVE StageInv'
  <2>1. /\ stage = "loading" /\ UNCHANGED <<late, handler, run, manualVars, logVars>>
        /\ \/ stage' = "serving" /\ cronOn' = TRUE
           \/ stage' = "closed" /\ cronOn' = cronOn
    BY <1>6 DEF StartScheduler, StageStep, manualVars, logVars
  <2>2. InFlight' = {}
    BY <2>1 DEF EntryInv, InFlight, Received, At
  <2>3. run' = <<>> /\ DOMAIN run' = {} /\ PoolsEmpty'
    BY <2>1 DEF StageInv, PoolsEmpty, manualVars, logVars
  <2>4. /\ stage' \in {"serving", "closed"} /\ stage' \in Stages /\ late' \subseteq {"http", "async", "scheduler"}
        /\ cronOn' \in BOOLEAN /\ (cronOn' => stage' = "serving")
    <3>1. cronOn = FALSE /\ late \subseteq {"http", "async", "scheduler"}
      BY <2>1 DEF StageInv
    <3>2. CASE stage' = "serving" /\ cronOn' = TRUE
      BY <2>1, <3>1, <3>2 DEF Stages
    <3>3. CASE stage' = "closed" /\ cronOn' = cronOn
      BY <2>1, <3>1, <3>3 DEF Stages
    <3> QED
      BY <2>1, <3>2, <3>3
  <2>5. \A r \in DOMAIN run' : run'[r].pc = "done" /\ (stage' = "closed" => ~Active(r)')
    BY <2>3
  <2> HIDE DEF PoolsEmpty, InFlight, Active
  <2> QED
    BY <2>2, <2>3, <2>4, <2>5 DEF StageInv
<1>7. ASSUME Signal PROVE StageInv'
  BY <1>7 DEF Signal, StageStep, OnlyStage, StageInv, Stages
<1>8. ASSUME EndHTTP PROVE StageInv'
  <2>1. /\ stage = "http" /\ stage' = "async" /\ late' = IF InFlight = {} THEN late ELSE late \cup {"http"}
        /\ cronOn' = cronOn /\ handler' = handler
    BY <1>8 DEF EndHTTP, StageStep, OnlyStage
  <2>2. InFlight' = InFlight
    BY <2>1 DEF InFlight, Received
  <2> HIDE DEF InFlight
  <2> QED
    BY <2>1, <2>2 DEF StageInv, Stages
<1>9. ASSUME CloseManualPool \/ CloseLogPool PROVE StageInv'
  <2>1. stage = "async" /\ UNCHANGED <<stageVars, handler>>
    BY <1>9 DEF CloseManualPool, CloseLogPool
  <2> QED
    BY <2>1 DEF StageInv, stageVars, InFlight, Received
<1>10. ASSUME EndAsync PROVE StageInv'
  <2>1. /\ stage = "async" /\ stage' = "callbacks" /\ cronOn' = FALSE /\ manualClosed /\ logClosed
        /\ late' = IF ManualPool!Drained /\ LogPool!Drained THEN late ELSE late \cup {"async"}
        /\ UNCHANGED <<handler, run, manualVars, logVars>>
    BY <1>10 DEF EndAsync, StageStep, OnlyStage
  <2>2. "async" \notin late' => PoolsEmpty'
    BY <2>1 DEF ManualPool!Drained, LogPool!Drained, PoolsEmpty, manualVars, logVars
  <2>3. InFlight' = InFlight
    BY <2>1 DEF InFlight, Received
  <2> HIDE DEF InFlight, PoolsEmpty
  <2> QED
    BY <2>1, <2>2, <2>3 DEF StageInv, Stages, manualVars, logVars
<1>11. ASSUME EndCallbacks PROVE StageInv'
  <2>1. /\ stage = "callbacks" /\ stage' = "tasks" /\ CallbacksDone
        /\ UNCHANGED <<late, cronOn, handler, run, manualVars, logVars>>
    BY <1>11 DEF EndCallbacks, StageStep, OnlyStage
  <2>2. InFlight' = InFlight /\ (PoolsEmpty => PoolsEmpty')
    BY <2>1 DEF InFlight, Received, PoolsEmpty, manualVars, logVars
  <2>3. PoolsEmpty => \A r \in DOMAIN run : run[r].pc = "done"
    <3>1. SUFFICES ASSUME PoolsEmpty, NEW r \in DOMAIN run, run[r].pc # "done" PROVE FALSE
      OBVIOUS
    <3>2. run[r].via \in {"cron", "pool"}
      <4>1. run[r] \in RunRecord
        BY DEF RunInv
      <4> QED
        BY <4>1 DEF RunRecord
    <3>3. run[r].via # "cron"
      BY <2>1, <3>1 DEF CallbacksDone
    <3> QED
      BY <3>1, <3>2, <3>3 DEF ManualInv, PoolsEmpty, Elements
  <2> HIDE DEF InFlight, PoolsEmpty
  <2> QED
    BY <2>1, <2>2, <2>3 DEF StageInv, Stages, manualVars, logVars
<1>12. ASSUME EndTasks PROVE StageInv'
  <2>1. /\ stage = "tasks" /\ stage' = "closed" /\ TasksDone
        /\ UNCHANGED <<late, cronOn, handler, run, manualVars, logVars>>
    BY <1>12 DEF EndTasks, StageStep, OnlyStage
  <2>2. InFlight' = InFlight /\ (PoolsEmpty => PoolsEmpty') /\ \A r \in DOMAIN run : ~Active(r)'
    BY <2>1 DEF InFlight, Received, PoolsEmpty, manualVars, logVars, TasksDone, Active
  <2> HIDE DEF InFlight, PoolsEmpty
  <2> QED
    BY <2>1, <2>2 DEF StageInv, Stages
<1>13. ASSUME StopSchedulerTimesOut PROVE StageInv'
  <2>1. /\ stage \in {"callbacks", "tasks"} /\ stage' = "closed" /\ late' = late \cup {"scheduler"}
        /\ UNCHANGED <<cronOn, handler, run, manualVars, logVars>>
    BY <1>13 DEF StopSchedulerTimesOut, StageStep, OnlyStage
  <2>2. InFlight' = InFlight /\ (PoolsEmpty => PoolsEmpty')
    BY <2>1 DEF InFlight, Received, PoolsEmpty, manualVars, logVars
  <2> HIDE DEF InFlight, PoolsEmpty
  <2> QED
    BY <2>1, <2>2 DEF StageInv, Stages
<1> QED
  BY <1>1, <1>2, <1>3, <1>4, <1>5, <1>6, <1>7, <1>8, <1>9, <1>10, <1>11, <1>12, <1>13 DEF Next, ShutdownStep

-----------------------------------------------------------------------------
JobsInv == suspect \subseteq Jobs /\ running \subseteq Jobs

LEMMA JobsNext == ASSUME HandlerInv, RunInv, JobsInv, Next PROVE JobsInv'
<1>1. ASSUME NEW h \in Requests, HandlerStep(h) PROVE JobsInv'
  <2>1. CASE Save(h)
    <3>1. handler[h].ids \subseteq Jobs
      BY <2>1, AtWork DEF Save, Working
    <3> QED
      BY <2>1, <3>1 DEF Save, JobsInv
  <2>2. CASE ~Save(h)
    <3>1. running' = running /\ suspect' \subseteq suspect
      BY <1>1, <2>2 DEF HandlerStep, Select, Apply, SubmitRun, Audit, WriteLog, jobVars
    <3> QED
      BY <3>1 DEF JobsInv
  <2> QED BY <2>1, <2>2
<1>2. ASSUME NEW r \in DOMAIN run, RunStep(r) \/ TaskReturns(r) PROVE JobsInv'
  <2>1. run[r].job \in Jobs
    <3>1. run[r] \in RunRecord
      BY DEF RunInv
    <3> QED
      BY <3>1 DEF RunRecord
  <2>2. suspect' = suspect /\ running' \subseteq running \cup {run[r].job}
    BY <1>2 DEF RunStep, TaskReturns, BeginRun, StartTask, ReceiveResult, DeadlinePasses, LateRelease, RecordRun,
       EndRun, jobVars
  <2> QED
    BY <2>1, <2>2 DEF JobsInv
<1>3. CASE UNCHANGED <<suspect, running>>
  BY <1>3 DEF JobsInv
<1>4. ASSUME NEW h \in Requests, NEW op \in Operations, NEW ids \in SUBSET Jobs, NEW row \in Row \cup {None},
             NEW status \in Statuses, Enter(h, op, ids, row, status)
      PROVE JobsInv'
  BY <1>3, <1>4 DEF Enter
<1>5. ASSUME (\E j \in Jobs : Fire(j)) \/ PoolStep \/ StartScheduler \/ Signal \/ ShutdownStep PROVE JobsInv'
  BY <1>3, <1>5 DEF Fire, PoolStep, TakeRun, TakeLog, PoolWritesLog, StartScheduler, Signal, ShutdownStep, EndHTTP,
     CloseManualPool, CloseLogPool, EndAsync, EndCallbacks, EndTasks, StopSchedulerTimesOut, OnlyStage, jobVars
<1> QED
  BY <1>1, <1>2, <1>4, <1>5 DEF Next

CloseInv == OrderInv /\ LogInv /\ ManualInv /\ StageInv /\ JobsInv

LEMMA CloseInit == ASSUME Init PROVE CloseInv
<1>1. Cardinality({}) = 0 /\ Workers \in Nat /\ Capacity \in Nat
  BY FS_EmptySet, PoolAssumption
<1>2. \A h \in Requests : handler[h] = At("none")
  BY DEF Init
<1>3. manualQueue = <<>> /\ manualBusy = {} /\ logQueue = <<>> /\ logBusy = {}
  BY DEF Init, ManualPool!NewPool, LogPool!NewPool
<1>4. Elements(<<>>) = {} /\ Len(<<>>) = 0 /\ <<>> \in Seq(Requests)
  BY DEF Elements
<1>5. OrderInv
  <2>1. Received = 1..0
    BY <1>2 DEF Received
  <2> QED
    BY <2>1 DEF OrderInv
<1>6. LogInv
  BY <1>1, <1>2, <1>3, <1>4 DEF Init, LogInv, At
<1>7. ManualInv
  BY <1>1, <1>3, <1>4 DEF Init, ManualInv
<1>8. StageInv
  BY <1>3 DEF Init, StageInv, PoolsEmpty, Stages
<1>9. JobsInv
  BY DEF Init, JobsInv
<1> QED
  BY <1>5, <1>6, <1>7, <1>8, <1>9 DEF CloseInv

LEMMA CloseAlways == Spec => []CloseInv
<1>1. Init => CloseInv
  BY CloseInit
<1>2. Inv /\ Inv' /\ CloseInv /\ [Next]_vars => CloseInv'
  <2> SUFFICES ASSUME Inv, Inv', CloseInv, [Next]_vars PROVE CloseInv'
    OBVIOUS
  <2>1. CASE Next
    BY <2>1, OrderNext, LogNext, ManualNext, StageNext, JobsNext DEF Inv, CloseInv
  <2>2. CASE UNCHANGED vars
    <3>1. OrderInv' /\ JobsInv'
      BY <2>2 DEF CloseInv, OrderInv, JobsInv, Received, vars, jobVars
    <3>2. LogInv' /\ ManualInv'
      BY <2>2 DEF CloseInv, LogInv, ManualInv, Elements, vars, manualVars, logVars
    <3>3. StageInv'
      BY <2>2 DEF CloseInv, StageInv, PoolsEmpty, InFlight, Received, Active, vars, stageVars, manualVars, logVars
    <3> QED
      BY <3>1, <3>2, <3>3 DEF CloseInv
  <2> QED
    BY <2>1, <2>2
<1> QED
  BY <1>1, <1>2, InvAlways, PTL DEF Spec

\* The lock of job.go is held exactly by the handler at work, and the pools
\* keep to their workers and their capacity, for any sizes.
THEOREM TypeCorrect == Spec => []TypeOK
<1>1. Inv /\ CloseInv => TypeOK
  BY DEF Inv, CloseInv, HandlerInv, EntryInv, LogInv, ManualInv, StageInv, JobsInv, TypeOK, Away
<1> QED
  BY <1>1, InvAlways, CloseAlways, PTL

\* operlog.go writes the log itself when the pool refuses it: the log of a
\* request that has ended is in the pool, or was written or tried.
THEOREM AuditAlwaysKept == Spec => []AuditKept
<1>1. Inv /\ CloseInv => AuditKept
  <2> SUFFICES ASSUME CloseInv, NEW h \in Received \ InFlight
               PROVE h \in logged \cup logBusy \cup Elements(logQueue)
    BY DEF AuditKept, Elements
  <2>1. h \in Requests /\ handler[h] = At("done")
    BY DEF Received, InFlight
  <2> QED
    BY <2>1 DEF CloseInv, LogInv
<1> QED
  BY <1>1, InvAlways, CloseAlways, PTL

\* The stages of main.go end admission before they wait, in an order in which
\* no later stage lets anything begin that an earlier one waited for.
THEOREM CloseIsAlwaysQuiet == Spec => []CloseIsQuiet
<1>1. CloseInv => CloseIsQuiet
  <2> SUFFICES ASSUME CloseInv, stage = "closed" PROVE CloseIsQuiet
    BY DEF CloseIsQuiet
  <2>1. /\ "http" \notin late => InFlight = {}
        /\ "async" \notin late => PoolsEmpty
        /\ late \cap {"async", "scheduler"} = {} => \A r \in DOMAIN run : run[r].pc = "done" /\ ~Active(r)
    BY DEF CloseInv, StageInv
  <2>2. ASSUME InFlight = {}, PoolsEmpty PROVE logged = Received
    <3>1. Elements(logQueue) = {} /\ logBusy = {}
      BY <2>2 DEF PoolsEmpty, Elements
    <3>2. logged = {h \in Requests : handler[h] = At("done")}
      BY <3>1 DEF CloseInv, LogInv
    <3>3. At("done") # At("none")
      BY DEF At
    <3> QED
      BY <2>2, <3>2, <3>3 DEF InFlight, Received
  <2>3. late \cap {"http", "async"} = {} => "http" \notin late /\ "async" \notin late
    OBVIOUS
  <2> HIDE DEF InFlight
  <2> QED
    BY <2>1, <2>2, <2>3 DEF CloseIsQuiet, PoolsEmpty
<1> QED
  BY <1>1, CloseAlways, PTL

=============================================================================
