# ruoyi-go in TLA+

ruoyi-go is the Go back end of an administration console: users, roles, menus,
departments, parameters, dictionaries, scheduled jobs, behind a login. One
process serves it (`docs/CONVENTIONS.md:871`, `docs/DEPLOYMENT.md:153`); MySQL
holds the business data, Redis the login sessions and the caches. What is hard
in it is not any one request but what requests, background workers and failures
do to each other. These modules are about that.

## Inventory

| Component | State | Operations | With whom |
|---|---|---|---|
| Login sessions (`service/token.go`) | Redis: session per uuid, reverse index, generation and permission version per user | nine Lua scripts; expiry | every authenticated request, every writer of users, roles and menus |
| Login (`service/login.go`) | failure counter, captcha in Redis | two account queries, then a session under the permission lock | sessions, accounts |
| Permission changes (`token.go: mutatePermissionState`) | `permissionRefreshMu`, the database | announce (version), commit, refresh sessions, compensate | sessions, revocation queue |
| Account revocation (`user.go`, `profile.go`) | `userWriteMu`, the database | revoke sessions, then write the row | sessions, login |
| Revocation queue (`permission_recovery.go`) | marked users, order, heap, counters | mark, clear, batch, retry with backoff, shutdown | permission changes, requests (a marked user is turned away) |
| Domain locks (`write_locks.go`) | one mutex per domain | acquired in a fixed order | all writers |
| Role, menu, relation writers | database rows | which users a change affects; tree and uniqueness checks | permission changes |
| Department tree (`service/dept.go`) | `parent_id`, `ancestors`, `status` | create, move, enable/disable, delete | data scope, users |
| Menus and routes (`service/menu.go`) | the tree of menus | create, move, delete; trees of choices, routes of the client | roles, every page of the client |
| Names (`user.go`, `role.go`, `post.go`, `profile.go`, `register.go`, `user_import.go`) | columns that must not be taken twice, without an index that says so | create, edit, register, import | domain locks |
| Dictionary and parameter tables (`dict.go`, `config.go`) | types, data, parameters, some of them built in | create, rename, move, delete | their caches |
| Parameter and dictionary caches | Redis value and global revision | read through, fill if unchanged, invalidate after commit | writers, login (captcha switch) |
| Cache monitor (`cache.go`) | none of its own | browse and clear keys of Redis | caches, sessions (which it must leave alone) |
| Online users (`online.go`) | none of its own | bounded scan of the sessions, pages, forced logout | sessions |
| Job scheduler (`job_scheduler.go`) | cron entries, running marks, wait group | load, reschedule, fire, time out, stop | job writers, lifecycle |
| Asynchronous pool (`asyncx`) | bounded queue, closed flag | submit, drain | operation log, manual runs, lifecycle |
| Request guards (`middleware`) | Redis counters, a semaphore | rate limit, repeated submission, export slots, captcha, the record of an operation | requests, pool |
| Notices (`notice.go`) | notices, who has read them | publish, withdraw, delete; mark as read | row locks of the database |
| Uploads (`profile.go`, `common.go`, `pkg/upload`) | files, `userWriteMu`, the avatar column | store, replace, roll back, remove | accounts, sessions |
| Lists and exports (`pkg/page`, `repository/*`) | none of their own | COUNT and SELECT, page by page; bounded exports | writers of the rows |
| Code generator (`gen.go`, `gen_render.go`) | imported tables and columns, files on disk | import, synchronise, edit; write files | the schema of the database |
| Lifecycle (`cmd/server/main.go`) | - | ordered shutdown with a timeout per stage | everything above |
| Cron expressions (`cronx`) | none | translate Quartz to robfig/cron | job writers, scheduler |
| excelx, validate, response, config, monitoring, templates of the generator | none shared | pure functions and reads | - |

Hard behaviours: interleavings of reads and writes on Redis and MySQL without a
common transaction; calls that fail after taking effect; a crash between an
announcement and its commit; stale copies of a session held by requests;
compensation that itself fails; background workers during shutdown.

What makes the components correct:

* *sessions*: a token that is gone stays gone; every session is reachable from
  its user's index; a request is only ever served on permissions that are in
  force; a renewal never undoes a refresh;
* *permission changes*: no affected session is forgotten, whatever fails;
* *account revocation*: no session survives it;
* *revocation queue*: a mark is removed only when its user was refreshed or
  revoked; the queue is bounded and drains;
* *caches*: after a committed and invalidated write no old value is served;
* *scheduler and pool*: no forbidden overlap, no accepted work lost, shutdown ends;
* *trees*: no cycle, `ancestors` agree with `parent_id`; routes are distinct;
* *tables*: no reference is written past its check or outlives its target, no
  name is taken twice, what the program refers to by name stays;
* *guards*: a limit holds however many requests come at once, and nothing that
  was taken stays taken;
* *files*: a file is somebody's or gone, and one that is referred to is there;
* *lists*: what is shown page by page is what there is.

## Plan

In the order they were built, the most important behaviour first:

1. `SessionStore`, then `PermissionRefresh` over it: who is served with which
   permissions. The abstract specification is `StoreSpec`, which
   `PermissionRefresh` implements.
2. `RevocationQueue`: the worker that `PermissionRefresh` abstracts.
3. `ReferenceCache`: parameters and dictionaries between Redis and the database.
4. `RelationWrites`: the domain locks, and whom a permission change concerns.
5. `Pool` and `Background`: scheduled jobs, manual runs, operation logs, shutdown.
6. `DataScope` and `DeptTree`: the department tree and who sees what of it,
   departments, users and roles.
7. `LoginGuards`: the rate limit, the captcha and the counter of wrong passwords;
   `WriteRequests`: what surrounds the handlers of writes and exports.
8. `GeneratorTables` and `GeneratedFiles`: the two halves of the code generator.
9. `UniqueNames`, `MenuRoutes`, `ReferenceTables`: what the rows of a table
   must be to each other.
10. `NoticeReads`, `UserFiles`: changes in two places, one after the other.
11. `OnlineUsers`, `CacheMonitor`, `ListPages`: what is read while it changes.
12. `CronTranslation`: when a job fires, against what Quartz means.

Left: the order among sibling departments, the checks of form values in the
generator (`gen.go`), invoke targets of jobs (`internal/job/registry.go`).

Theorems still to prove are named at the end of the proofs.

## Modules

### SessionStore

Redis as the scripts of `token.go` use it. `session[t]` is the serialised
`LoginUser` under `login_tokens:<uuid>`, `index[u]` the set
`login_user_sessions:<id>`, `generation[u]` and `permVersion[u]` the two
counters. `owner[t]` is history: which user the uuid was drawn for (a uuid is
drawn once). One action per script (`CreateSession`, `RenewSession`,
`UpdateSessionPermissions`, `DeleteSession`, `RevokeSessions`,
`AdvancePermissionVersion`), since a script is atomic, and one per expiry. A
pipeline over several users is one action over a set of users; its failure, in
part or after the fact, belongs to the caller.

What a session grants is abstracted to two counters: `snap.assigned`, the
number of changes to the user row and role assignments it reflects, and
`snap.granted`, the same for the menu permissions of the roles. Fresh means
equal to the counter in `database`. The bytes the scripts compare are
determined by the copy's `revision` (each permission write adds one to it;
a renewal changes times only), so the comparison is on `revision`.

`StoreSpec` is the promise the rest of the system relies on: whatever copies
callers hold, Redis only ever creates a session under a fresh uuid, renews or
refreshes the stored one, deletes, revokes or expires.

### PermissionRefresh

The concurrent handlers over that store, one record per handler in `request`,
`login`, `mutator`, `revoker`, whose `pc` names the next call.

* a login: `ReadGeneration`, `ReadUser`, then under `permissionRefreshMu`
  `LoadMenus`, `ReadPermissionVersion`, `CreateToken`;
* a request: `Receive`, `CheckGeneration`, `CheckPending`, `CheckVersion`; when
  stale `LockStale`, `ReadVersionLocked`, `LoadSnapshot`, `WritePermissions`,
  `Reread`, `CompensateRequest`; then `RenewToken`; `StartInfo` is getInfo's
  refresh;
* a permission change: `BeginMutation`, `AdvanceVersions`, `CommitMutation`,
  `CollectSessions`, `RefreshSession` per session, `FinishMutation` or
  `CompensateMutation`;
* an account revocation: `RevokeAccounts`, `WriteAccounts`;
* `Cleanup` (the worker of the queue), `Logout`, `Expire`, `Crash`.

A Redis or database call may fail before or after its effect; such a
failure spends one unit of `faults`. `RefreshSession`, which the promise about
forgotten sessions is about, fails after its effect, without it on a session that
lives, or because the session is gone or of another generation; the loop then
notes the user and leaves its other sessions out. A `Crash` forgets all handlers, locks and
marks and keeps Redis and MySQL. The revocation queue is here the set `pending`
with one atomic batch (`RevokeBatch`).

### RevocationQueue

The queue that `PermissionRefresh` sees as a set. `pending[u]` is the time of the
mark (0: none), `order` and `oldest` the slice and the heap with the leftovers
that `clear` does not take out, `wake` and `stopped` the two channels,
`attemptMu` its holder, `attempt[g]` the batch that a goroutine has in hand.
The two goroutines are the worker and the caller, whoever holds
`permissionRefreshMu`. Each critical section of `q.mu` is one action:
`Mark`, `ClearMark`, `TakeBatch`, `FinishBatch`, `Trimmed` (the part of `stats` that
changes the heap); `Revoke` between them runs without the lock and fails for any
subset of its batch. `WakeUp`, `AfterBatch`, `Retry`, `StopWorker` are the
worker's loop, `StartRefresh` to `Return` the caller's, with the lazy refresh of
a request (`LazyRefreshed`).

### ReferenceCache

`database[k]` counts the changes of a key, `cache[k]` is the version cached,
`revision` the counter that `SetIfRevision` compares. `kind` says which of the
two caches is looked at, since they differ in how several keys are cleared and
in what a corrupt entry does. A reader is `ReadCache`, `ReadRevision`,
`ReadDatabase`, `StoreCache` (`SetIfRevision`), with `InvalidateCorrupt` when the
entry does not parse; a writer is `Write`, the commit, then `ClearWritten`, which
may fail; `ClearAll`, `Scan`, `DeleteScanned`, `ClearedAll` are the refresh of a
whole cache, `ClearKey` the cache monitor. `settled[k]` is history: the version
that the last write reported as successful left.

### RelationWrites

Every writer of users, roles, posts, departments and menus, reduced to what it
refers to: `refers` holds the pairs of rows that point at each other,
`Start` draws the operation and the locks of its function in their order,
`Acquire` takes them one by one, `Validate` (or `Refuse`) makes
the checks and notes whom the change affects, `Write` commits and refreshes the
sessions of those noted. `ofDeletedRole` (history) are the links that an
administrator writes of a role that was deleted before, where
`CheckRoleDataScope` does not look at the role (see the observations).
`session[u]` is what `u`'s sessions permit, as pairs of
a menu and the number of its changes. The queries that show one relation from
several sides (the users of a role, the roles of a user, the permissions a
login and a refresh load) are operators over `refers`, and `PagesAgree` compares
them.

### Pool and Background

`Pool` is `asyncx.Pool`: `queue`, `busy`, `closed`. `Background` has two
instances of it (manual runs, operation logs) and

* `handler[h]`: a request that writes jobs (`Enter` takes `jobWriteMu`, `Select`,
  `Save`, then `Apply` per job changes the cron entries, `Leave`), or starts one
  by hand (`SubmitRun`); then the operation log (`Audit`, `WriteLog`);
* `run[r]`: a call of `execute`: `Fire` or `TakeRun`, `BeginRun` (the mark),
  `StartTask`, `ReceiveResult` or `DeadlinePasses`, `RecordRun`; the task
  function's goroutine is `fn`, and `LateRelease` gives the mark back when the
  function outlives the call;
* `stage`: `StartScheduler`, `Signal`, and the stages of `shutdownComponents`, each
  of which ends when its part is done or its timeout passes (`late`).

### DataScope and DeptTree

`DataScope` is `datascope.go`: `Effective` the roles that count
(in use, and with the permission asked for), `Clause` what one of them adds,
`Below` the search in stored paths, `Visible` the departments that result,
`UserVisible` and `RoleVisible` the rows of users and roles, whose queries join
other columns. `DeptTree` is
`dept.go`: `state`, `parent`, `status` and `ancestors` are the columns, the path
a sequence whose first element is `Top`, the 0 of the code. `CreateDept`,
`UpdateDept` and `DeleteDept` are whole handlers, which hold `deptWriteMu` and a
transaction from their first check to their last write (`RelationWrites` has the
locks): the scope of the user is checked, then status and path of the new parent,
`Rebuilt` replaces the head of every descendant's path, `EnabledAbove` enables
what the path names. The users are the administrator and one `operator` with
any roles, who acts once its department is there.

### LoginGuards

`login[t]` is a request from the middleware to the session: `Limit`,
`VerifyCaptcha`, `ReadCount`, `Compare`, `RecordFailure` or `Recheck`, `ClearFailures`,
`Create`, each one script or one query; `Fail` ends it anywhere. `window`,
`captcha` and `failures` are the Redis keys. The account's status is not a variable:
a read of an account may find it disabled. `passed`, `answered` and `guesses` are
history. The two account queries and the session are in `PermissionRefresh`.

### CronTranslation

A function more than a machine: `SaveJob` takes any expression of the bounds,
`Translates` and `shiftDayOfWeek` are `cronx.go`, `Parses`, `Weekdays` and `Fires` the
library as far as it is used (external), and `QuartzFires` what the expression means.
`Background` has the rest of a job: its `Schedulable` definitions are those that
are accepted here.

### WriteRequests

`request[r]` is a request on its way through the middlewares in the order of
`router.go`: `RepeatSubmit` (one script on `latest`, the last fingerprint) or
`TakeSlot` and `GiveUp` (the semaphore `exportSlots`), `HasPermission`, and then
the handler inside `OperLog`, which may panic (`Recovery`). An answer is a
sequence of bytes in one or two writes; `record` is what `OperLog` keeps of it.
`letPast` is history.

### GeneratorTables and GeneratedFiles

`schema` is the database the generator looks at, which changes at any time
(`Alter`); `config` and `rows` are `gen_table` and `gen_table_column`. `Import`,
`CreateTables`, `DeleteConfigs`, `Sync` and `Edit` are whole requests, as each
holds `genWriteMu` and is one transaction; `form` is a page that was read
earlier. In `GeneratedFiles`, `writing[g]` is a request to write the files, one
file after the other: `Replace` renames the temporary file, `BackUp`, `RetryReplace`,
`Restore` and `RemoveBackup` are what follows when the rename is refused, each of
which may fail; `Stop` ends the process and `ChangeConfig` edits the table between
requests. `disk` holds the version of each file, `litter` the backups left.

### UniqueNames

`named[id]` is a row of users, roles or posts with its name and its second
value (phone or mail address, key, code). `CreateNamed`, `UpdateNamed`, `Register`
and `UpdateProfile` take the domain lock and count; `WriteNamed` writes, later.
`ImportUsers` reads the names of all rows of its file first and
`importOneUser` writes them one by one. `unchecked` (history) are the rows
that were never compared with all others: see the observations.

### MenuRoutes

`menus[id]` is a row with its type, name, path, route name, parent and status.
`CreateMenu`, `UpdateMenu` and `DeleteMenu` are whole requests under
`menuWriteMu` with all their checks (`checkMenuValid`, `hasRouteConflict`,
`menuParentCreatesCycle`). A creation may carry an id, which the checks of names and
routes leave out and which is dropped only after them; `overlooked` (history) are the
pairs of menus that were not compared for that, until one of them is edited. The trees and the routes are operators: `buildMenuTree`,
`BuildMenuTreeSelect`, `RoleMenuTreeSelect`, `BuildRouters`, and the
properties relate them to the rows and to each other.

### ReferenceTables and CacheMonitor

`ReferenceTables` has the tables below `ReferenceCache`, a request as one step
that leaves in `reply` whether it succeeded and which cache entries it cleared;
`ReferenceCache` takes for granted that those are all whose value changed, and
here it is checked. `CacheMonitor` has the keys of Redis by prefix and rest:
`ClearCacheByName`, `ClearCacheByKey` and `ClearCacheAll`, which goes cache by cache.

### NoticeReads

`noticeTx[t]` is a transaction: `UpdateNotice`, `DeleteReads`, `DeleteRows`,
`MarkPublishedNoticesRead`, `InsertReads`, then `Commit` or `Rollback`. Nothing in the
process keeps them apart; `RowLocks`, `RangeLocks` and `InsertLocks` are the
locks InnoDB takes at REPEATABLE READ, its default, which the code does not change:
deletions share the gap of a notice without marks, and keep marks out of it.

### UserFiles

`upload[r]` is an upload of an avatar (`SaveAvatar`, `LockAvatar`,
`ReplaceUserAvatar`, `UpdateAvatar`, `reconcileAvatarFiles`) or of a batch of
files (`StartBatch`, `saveUpload`, `rollbackUploads`, `AnswerBatch`). Each step may
fail, and the commit may succeed without the request hearing of it (`unheard`); the
removal of a file may fail, that of a partial copy included (`lost`), the user may
be deleted and the process stop.

### OnlineUsers and ListPages

`OnlineUsers` is one request: `scanKeyBatchesBounded` returns any batch that
SCAN may return, `collectOnlineUsers` reads it with MGET, while sessions come
and go. `ListPages` has any of fourteen lists with its ORDER BY: `Browse`,
`CountRows`, `SelectRows` page by page, `Export`; rows are inserted, deleted and
updated at any time, and rows that tie come in any order.

### MC modules and proofs

`Parts` puts components that share nothing side by side (caches, revocation
queue, department tree, `LoginGuards` and everything from `CronTranslation` on):
in a behaviour one of them moves, and the others stay at one initial state. It
is the union of their state spaces, not a product, and a property is about the
part that moves. Each of those modules has a specification of its own, of which
the theorems are stated first and which a part's behaviour is one of.
`MCParts` gives them their constants, and the other `MC` modules add symmetry, the
initial tables or the operators.

The theorems are in `PermissionRefreshProofs` (with `SessionStore`),
`ReferenceCacheProofs` (with `ReferenceTables` and `CacheMonitor`),
`BackgroundProofs`, `DeptTreeProofs`, `RelationWritesProofs`, `RequestProofs` (`LoginGuards`,
`WriteRequests`, `OnlineUsers`, `ListPages`) and `PartsProofs` (the other parts, and what holds of `Parts`); `DataInduction` has
what several of them need of numbers and of chains in a finite set.

## Runs

`CHECK_DEADLOCK FALSE` stands wherever a bound ends the run: uuids, versions,
faults and retries run out, and then every handler may be idle. States are
distinct states.

| Run | Instance | States | Shows |
|---|---|---|---|
| PermissionChange | 1 user, 2 tokens, 2 requests, login, mutator, 1 fault, 1 crash | 3.58 M | a session at the current version is fresh, every request is accepted on current permissions, Redis is used as `StoreSpec` says, locks are held where they must be |
| AccountChange | role, menu and account changes, 1 fault, 1 crash | 3.20 M | stale roles, and sessions that outlive a revocation, come only from a login in its two windows |
| MultiUserChange | 2 users, 1 fault, fair | 0.38 M | nobody affected escapes refresh and compensation; stale requests are decided |
| RolesRace | login against role change | - | the first of those windows (finding) |
| RevocationRace | login against revocation | - | the second (finding) |
| Parts | the seventeen parts of `Parts`, see below | 1.82 M | see below |
| QueueLiveness | 2 users, room for 1, batch 1, fair | 0.11 M | `QueueProgress`: the worker stops; marks drain once Redis recovers, a second user being turned away meanwhile |
| QueueGrowth | 2 users | - | leftovers pile up (finding) |
| RelationWrites | 2 users, 1 role, 2 menus, post, department, 2 writers | 2.9 M | what is referred to is there but for the links to and from deleted roles and to departments that `ReferencesLive` names, menus stay a forest, only users not listed in a window keep old permissions, pages of one relation agree, no deadlock of locks |
| MenuWindow | 1 user, 1 role, 1 menu | - | a role assigned beside UpdateMenu (finding) |
| Background | 1 job, 2 events, 1 fault, pools of 1, fair | 0.35 M | entries follow the table, forbidden runs do not overlap, no log is dropped, shutdown is ordered, runs (`RunsEnd`) and shutdown end |
| JobOverlap | 1 job, 3 events | - | an edited job beside its old run (finding) |

The parts of `Parts`, each with an instance of its own:

| Part | Instance | Shows |
|---|---|---|
| cache | 2 keys, 1 reader, either cache | `CacheCoherent`, `ReadsSettled`: no old value after a settled write |
| queue | 2 users, room for both, batches of 1 | `QueueKept`: nobody pending is lost, no wake-up is lost, the oldest mark is reported |
| tree | 4 departments, 2 statuses, operators with any kind of roles, with and without a department | `PathsFollowParents`, `BranchesInUse`, `ScopeAsPromised`: an operator sees the departments, users and roles its roles promise by the links of the tree |
| login | 2 at a time of 4 requests, 1 account, 1 captcha, lock after 2, 2 per window | `RequestsGuarded`: guesses before a lock are bounded, no login lifts a lock, a captcha answers once, the window bounds and ends |
| requests | 2 requests, 2 fingerprints, 1 export slot, answers up to 6 bytes with room for 4 | `RequestsGuarded`: a slot is never lost, a repetition never let through, a record true and storable |
| tables, files | 2 tables of 2 columns, 3 rows ever, 2 changes of the schema; 2 requests for 2 files, 2 editions, 1 stop | `GeneratorSound`: columns stay those of their tables, settings stay with their column; a file is never lost, files belong together |
| menus | 3 menus of 8 forms | `MenusConsistent`: routes are distinct but where a creation carried the id of the other menu, no row is hidden, the form of a role gives back what was chosen |
| names | 3 rows, 2 names, 2 second values, 2 writers, files of 2 rows | `NamesDistinct` |
| notices | 2 notices, 1 reader, 3 transactions | `NoticesKept`: a mark is of a notice that was published then and is still there |
| uploads | 1 user, 3 files, 2 requests, batches of 2 | `FilesAccounted` |
| dicts, params | 2 types and 2 rows of data, or 2 parameters; 3 names, one built in | `ReferencesSound`: names, rows and built-in rows kept, every changed value cleared |
| monitor | 3 prefixes, 4 keys each, 2 revisions | `ReferencesSound`: clearing by hand touches nothing else |
| cron | lists of two of 31 items, 5 days of the month | `SchedulesFaithful`: an accepted expression fires on the days it names |
| online, lists | 3 sessions, a limit of 3; 14 lists of 3 rows, pages of 1 and 2, exports of 2 | `ListsComplete` |

## Bounds

Two users where an effect on somebody else matters, otherwise one; as many
tokens as logins can usefully interleave. `MaxRetries` is 3 as in the code.
`MaxVersion`, `MaxRevision` and `MaxRevocations` of 1 or 2 give a change before,
during and after a handler's critical section. One fault gives a failing call
with a compensation that succeeds, and in `MultiUserChange` any of the two users
failing; a compensation that fails as well takes its batch through
`RevocationQueue`, whose failures are not bounded. A crash may fall between the
announcement of a change, its commit and the refresh, of menus (`PermissionChange`)
and of roles and accounts (`AccountChange`). With two users, `Limit` 1 is a queue that
is full, and with `Limit` 2 a `BatchSize` of 1 makes two batches of it. Pools of one worker
and one place are idle, busy, full and closed within two events. `MaxEvents`
of 2 is two writers, a writer and a firing, or two runs of a job; the overlap
after an edit needs 3. `MaxWrites` of 2 is any two writers of relations.
Four departments are a root, a branch with a child and a grandchild to move, or
two branches to move it between; sequences of changes are not bounded. The
operator belongs to the root or to one other department (those are alike), and
has no role, one of each kind, one without effect, or two that add up. In
`LoginGuards` the thresholds (5 failures, 60 requests) are 2: four requests can
reach the lock one by one and then two at once, or fill a window and overrun it
by two. A name without an account behaves as a wrong password does.

Three menus are a branch with a child and a grandchild, or three side by side;
the eight forms collide by name, by path, by route name and as links. Two
writers of names are one between the count and the insert of the other; a file
of two rows names the same user twice or a user and itself. Three transactions on
notices are a mark, a deletion and an edit at once. `MaxResult` 4 leaves a
character of three bytes cut after its first, its second or not at all. In lists a
page of 1 and a page of 2 end evenly or not over three rows, and a `MaxInt` of 15
makes the offset of the last page number exceed the largest integer, which the code has to catch.

## Fairness

`PermissionRefresh`: weak fairness of the handlers that have started and of the
queue's worker (goroutines run, calls return or time out) and strong fairness
of taking `permissionRefreshMu`: `sync.Mutex` in starvation mode hands the lock
to its oldest waiter. Nothing is assumed of clients, operators, logins, expiry
or failures.

`RevocationQueue`: weak fairness of both goroutines, and strong fairness of
`StopWorker`, because a Go `select` draws among its ready cases. That Redis
recovers is not assumed of the system: it is a hypothesis inside `QueueProgress`.

`Background`: handlers, calls of `execute`, pool workers and the goroutine of the
shutdown run; a deadline passes and a stage's timeout passes (both are timers).
Cron, clients, signals and task functions owe nothing: a task may never return.

## Proofs

All theorems hold for every value of the constants, under the assumptions named
in the modules.

* `SessionStore`: `StoreInv` says of a stored session that it belongs to the
  owner of its uuid, is in that user's index and of the current generation; it
  is inductive, and gives `StoreCorrect`. `StoreNoResurrection` rests on a uuid
  being drawn once, `StoreRefreshNotUndone` on what a step may do to a stored
  session.
* `PermissionRefresh`: `CopiesInv` bounds what the copies in the hands of the
  handlers may differ in from the stored session; with it every step is a step
  of `SessionStore` or a stutter (`StoreImplemented`), so the store's guarantees
  carry over (`StoreGuarantees`). `LockInv` ties the program counters to the
  holder of the lock. `AuthorityInv` adds which versions a copy is sound for:
  the version is advanced before the commit, so a snapshot that was loaded
  under the lock is sound for the version it was stored with. This yields
  `CurrentVersionIsFreshAlways`, `AcceptsCurrentAlways` and
  `LockedCopiesCurrentAlways`. `AccountInv` says: a session,
  or a login whose generation is still current, either has the credential of the
  row with no revocation waiting for its write, or read the generation in the
  window. A step revokes a user, lets the key of the generation expire when
  nobody needs it, or disturbs nothing that is up to date (`AccountStep`); hence
  `RevokedOnlyFromWindowAlways`. What a turn of the refresh loop does to the
  copies and the list of failed users (`LoopTurn`) gives `NobodyForgottenAlways`,
  and `FreshRoles`, which holds of refreshes but not of logins, gives
  `RolesStaleOnlyFromBirthAlways`.
* `ReferenceCache`: what is settled is a floor for the cache and for every reader
  whose revision is still current; a reader with an older revision cannot fill.
  `CacheCoherentAlways` and `ReadsSettledAlways` follow from that invariant.
* `Background`: `HandlerInv` is what a handler in the critical section of
  `jobWriteMu` knows of the row it works on; `EntryInv` needs it, and the fact
  that a row which cannot be loaded has no entry, since a refused reschedule
  leaves the entry alone. `RunInv` says that the mark of a job is held by one call
  at most, from `BeginRun` to the end of its function. They give
  `EntriesMatchTableAlways` and `ForbiddenRunsAloneAlways`. Of the
  shutdown, `CloseInv`: requests are numbered without a gap (`OrderInv`), a request has ended
  exactly if its log is in the pool or was tried (`LogInv`), the manual pool holds
  exactly the manual runs that have not ended (`ManualInv`), and what a stage that
  did not time out found empty stays empty (`StageInv`), because no request enters
  after the signal, a closed pool admits nothing, and cron is off when its
  callbacks are waited for. They give `TypeCorrect`, `AuditAlwaysKept` and
  `CloseIsAlwaysQuiet`, for any number of workers and any capacity.

* `DeptTree`: `TreeInv` is types, links (the path of a department is its
  parent's with the parent appended), paths and use. In a path every department
  stands right after its own path, so replacing the head of a path that holds
  `d` replaces exactly `d`'s path; that is why a text replacement is right, and
  the lemmas about subsequences say so. It gives `PathsFollowParentsAlways` and
  `BranchesInUseAlways` for any number of departments, operators and statuses.
  That the departments whose path contains `d` are those below `d` by the links
  (`PathWithin`, `PathIsClimb`) turns every clause of `datascope.go` into
  what the role promises (`ClausePromised`), hence `ScopeAlwaysAsPromised`, for a
  finite set of departments.
* `RelationWrites`: `LockInv` says that a writer holds what its operation takes
  but for the locks it has yet to take, and that these come after those in one
  order (`Rank`). So the writer with the highest lock held never waits
  (`NoDeadlock`), and two writers past their locks have none in common.
  `ReferenceInv` adds what a writer that is about to write has found
  (`Checked`): a row and the links to it change only under the lock of its kind
  (`WriteRespects`), so it stays found, and `NothingDangles`: what refers to a
row finds it, but for the links that were written of a deleted role
(`ofDeletedRole`), the departments of deleted users and deleted departments in the
scope of a role. `SessionInv` adds
  whom it has listed: users come to have a role only under the lock of roles, so
  the lists of `UpdateRole` and `ChangeRoleStatus` stay complete, and
  `PermissionKept` says that nobody else's permissions change; `UpdateMenu` holds
  the lock of menus alone, and its exception is `unlisted`
  (`OnlyUnlistedStale`). In such a state all the queries for permissions are one
  join (`LoginIsJoin`, `SnapshotIsLogin`), hence `ReadersAgree`. The proofs assume of the five kinds of rows that no row is of two. `ForestInv`
  adds that menus are a forest, as `Rooted`: from no menu do the links lead back to
  it. What a writer has checked of the new parent stays true until it writes, as
  links between menus change under the lock of menus only (`Reparented`,
  `LinksDropped`); `ForestRooted` gets from there to the form of the run, and so
  `TablesAlwaysSound`. The menus are assumed to be finite.
* `DataInduction` is the induction that those proofs need. The theorems of
  the library take an operator, which no prover here can instantiate; but
  inclusion in a finite set is well-founded, and from that a set of numbers has a
  least element (`NatMin`) and `NatInduct` follows, stated of sets. `ClimbExists` and
  `ClimbCloses` are about repeated unions: after as many steps as there are
  members, a climb has reached all it ever will.
* `LoginGuards`, in `RequestProofs`: the guesses before a lock are the failures that are
  recorded and those in hand (`GuessTally`). It gives `GuardsAlwaysHold`;
  `LockAlwaysHolds` is about steps.
* `WriteRequests`, likewise: `exportSlots` is the number of the requests that
  export, `latest` the last fingerprint let through, and `CapturedAnswer` says what
  `OperLog` keeps of an answer in two pieces; a record cut at its
  last complete character is valid (`RequestsAlwaysSound`).
* `OnlineUsers`, likewise: until something is cut off, whoever was there throughout
  and has been returned is on the list or in the batch to be read (`NoneMissed`).
  `newestFirst` is in order and has everyone as often as before
  (`NewestFirstSorts`), and pages that follow each other join to what was cut
  (`PagesJoin`), whatever their size: `OnlineAlwaysListed`.
* `ListPages`, likewise: the order of every page ends in the primary key
  (`PagesAreOrdered`, `StableDecides`), so rows never tie (`NoTies`) and each stands in
  every answer at its rank, the number of rows before it (`AnswerRanks`). Rows that
  come only raise ranks (`RanksGrow`), so between two pages the client has seen
  every row of its start that ranks before the next page (`SeenSoFar`). It gives
  `PagesAlwaysComplete`; exports need no order, since they are not cut.
  The largest int is assumed to exceed the number of rows.
* `UniqueNames`: a writer between its count and its insert has a name nobody else
  has (or is one of those that `NamesDistinct` excepts), because writers of names
  hold the domain lock from one to the other (`NamesAlwaysDistinct`).
* `UserFiles`: every file on disk has an account: a row, a request's hands, or a
  known failure; a request that may still remove a file has it alone
  (`FilesAlwaysAccounted`).
* `NoticeReads`: a transaction that is about to insert marks has the rows of
  its notices locked, so they are there and published until it commits; a
  deletion that has removed the marks keeps new ones out by its range locks
  (`ReadsAlwaysHaveNotices`, `MarksAlwaysOnPublished`).
* `ReferenceTables`, in `ReferenceCacheProofs`: `RefInv` says that names and keys
  are distinct, so a count of 0 means that nobody else has the name, and that what
  the contract names has a sensible value; every request keeps it, with
  `RefTablesSound` of the step (`TablesAlwaysKept`).
* `CacheMonitor`, likewise: what a request clears is among the caches it may clear,
  which hold no session and no revision (`MonitorAlwaysHarmless`).
* `GeneratedFiles`: a request has a backup from moving a file away to removing it
  (`BackupHeld`), and removes it only when the file has a copy elsewhere
  (`SafeToRemove`), so no file is lost (`CopiesAlwaysKept`). As long as nothing
  fails, a file that a running request is through with is of the current
  configuration or in the hands of another (`UpToDate`): `AlwaysOneEdition`.
* `GeneratorTables`: ids are given out once (`NewIdFacts`, `NewRowsFacts`). A
  writer leaves rows that descend from old ones, one from each, and adds some with
  new ids for columns without a row (`TogetherOwn`, `Renewed`); what an open form
  shows, if it still is there, is the same column (`FormShown`). Hence
  `ColumnsAlwaysConsistent` and `ColumnsAlwaysKept`.
* `RevocationQueue`, in `PartsProofs`: a batch is what `popBatchLocked` takes off
  the front, stale entries skipped (`PoppedIs`, `BatchIs`), and what `clear` leaves
  are the entries of the others (`Filtered`). `order` is sorted by `pendingSince`
  and has an entry of everyone's mark, so its first live one is the longest
  wait (`OldestAlwaysReported`). Who is pending is queued or in the batch of the
  caller or the worker; a worker that sleeps with users pending has a token in
  `wake` or the caller is about to send one (`MarksAlwaysServed`).
* `MenuRoutes`, in `DeptTreeProofs`: a menu that moves is not on the way up from its
  new parent, so any set of rows keeps one whose parent is outside of it
  (`MenusForest`, `TreeReparented`). By that, whoever descends from the tops meets
  every row that should be shown (`NothingIsHidden`), and of a chosen row some leaf
  below it is sent back (`SomeLeaf`, `ChoiceIsRestored`). Names are compared with
  all rows but one before a row is written (`RowsDistinct`), and that is enough for
  the routes built from them, but for the pairs that were `overlooked`
  (`RoutesAreDistinct`): `MenusAlwaysConsistent`.
* `CronTranslation`: item by item the days that the library takes are Quartz's
  (`SameDays`), for a step goes from the first day either way; fields
  (`FiresAlike`) and refusals (`RefusedRightly`) follow. `CronAssumption` says
  which items there are: one day is a range from itself, only days have names, and
  a "?" has no step. `SchedulesAlwaysFaithful`.
* `Parts`: where a part moves, its behaviour is one of the component's
  (`PartsAreLogins` and so on), which gives `RequestsAlwaysGuarded`,
  `NoticesAlwaysKept`, `ReferencesAlwaysSound`, `GeneratorAlwaysSound`,
  `QueueAlwaysKept`, `MenusConsistentAlways`, `SchedulesFaithfulAlways` and
  `ListsAlwaysComplete` in the form of the run, and `PartsTypeCorrect`.

Model-checked only: liveness and everything that depends on ENABLED. Every invariant
that a run checks is a theorem too.

## Findings

* **RolesRace** (`login.go:125`): a role change between the second account query
  of a login and the permission lock leaves a session with the old roles at the
  current version, against the comment at `login.go:145` and
  `CONVENTIONS.md:423`.
* **RevocationRace** (`user.go:236`): account operations revoke the sessions
  before they write the row; a login that reads the new generation and the old
  row keeps its session, against `login.go:119`.
* **QueueGrowth** (`permission_recovery.go:112`): `clear` leaves entries in `order`
  and `oldest`, which grow with every successful refresh, although the queue is
  called bounded at `:28`.
* **MenuWindow** (`menu.go:310`): `UpdateMenu` looks up the affected users outside
  of the locks of role assignments; a user assigned in between keeps old
  permissions, against `CONVENTIONS.md:413`.
* **JobOverlap** (`job_scheduler.go:207`): a run of a copy that allows overlapping is
  in no register, so after an edit to forbidding the next run starts beside it,
  against `job_scheduler.go:50` and `:285`.

## Observations

Met while modelling, outside of what the runs state:

* a user without a department counts as of department 0
  (`datascope.go:176`), which every path starts with: with a role of scope
  "department and below" that user sees every department. `CONVENTIONS.md:574`
  keeps the Java query, so `ScopeAsPromised` says of such a user that what it sees is
  what hangs below 0;
* the status of a department is not validated (`model/sys_dept.go:27`): a change
  without one leaves "", which counts neither as normal nor as disabled, and
  moving such a department below a disabled one leaves normal ones under it,
  against `dept.go:208`. `BranchesInUse` is about requests with one of the two;
* `checkRoleIDs` (`service/relations.go:67`) applies the scope with the alias `d`
  to a query that joins no department (`repository/relations.go:34`);
* `UpdateJob` can start a paused job with the permission to edit only
  (`CONVENTIONS.md:878` has changes of status need their own);
* `CreateRole` (`role.go:104`), `CreatePost` (`post.go:52`) and `CreateMenu`
  (`menu.go:251`) look for the same name before they drop the id that the
  request carries, and the query leaves out the row with that id: a creation with
  the id of a row of the same name makes a second one (`write_locks.go:6`
  wants check and write to be one; `user.go:126` drops the id first). For a menu
  the same goes for its path and its route name, which `hasRouteConflict`
  compares (`menu.go:454`), against `menu.go:440`. `NamesDistinct` excepts such
  rows, `RoutesDistinct` such pairs of menus;
* related rows are to exist before a relation is written (`DECISIONS.md:1655`), but for
  an administrator `CheckRoleDataScope` returns before it looks at the role
  (`role.go:77`): `GrantAuthUser` (`role.go:298`) and `AuthDataScope` (`role.go:176`) of
  a role that was deleted meanwhile leave rows of `sys_user_role` and
  `sys_role_dept` behind, which no deletion of the role removes any more.
  `DeleteDept` looks for users, not for the data scopes of roles, so `sys_role_dept`
  keeps a deleted department. `ReferencesLive` excepts these links, by their
  history;
* `ImportUsers` compares names, not phone numbers and mail addresses
  (`user_import.go`), and keeps the rows before the one that failed;
* `unsupported` in `cronx.go:32` looks for the letters L and W anywhere, so the day WED and
  the month JUL are refused, although names are to be kept (`cronx.go:89`). With
  neither field for days "?" Quartz refuses an expression; this code accepts it
  and fires when either fits (`QuartzLegal` leaves those out);
* two links that differ in their scheme only (`http://x`, `https://x`) have the
  same replaced path, and an inner link of the first level has the route
  name of its menu if that has one: `RoutesDistinct` leaves the route inside out;
* a limited operator who saves the form of a role drops the menus and
  departments of that role the operator does not see (`RoleMenuTreeSelect`,
  `RoleDeptTree` show no others);
* the database may commit an avatar and the answer be lost; then
  `reconcileAvatarFiles` removes the file the row points at (`unheard`);
* `scanKeyBatchesBounded` says "cut short" when its limit is reached with a cursor
  that is not 0, even if nothing was left (the comment of that function in `redisx.go` calls it exact), and
  keys that SCAN returns twice make a session appear twice in the list;
* notices rely on gap locks, so on InnoDB's REPEATABLE READ, which no
  configuration here asks for;
* data may spell its dictionary's type in another case than the type itself; the
  database finds it then and the cache does not;
* a form of the generator that is sent after a synchronisation writes back the
  column values it showed (`IdentityKept` is about what identifies them);
* a page size over 100 is cut (`page.go`): a client that counts pages by the size it
  asked for misses rows; a row inserted between COUNT and SELECT can hide the last
  row; the export of posts has no ORDER BY;
* of an answer longer than 2000 bytes `OperLog` reads a code out of what was kept
  (`operlog.go:140`): a failed operation is recorded as successful. A handler that
  panics leaves no record;
* a creation that was refused or failed keeps its repetition out for the interval
  all the same, and only the last fingerprint is remembered: A, B, A passes.

## Not modelled

Redis losing its data (the counters included); the length of times to live: an
entry may expire at any time, or never. The bytes of passwords and tokens'
signatures. In `RelationWrites` the logins, in `PermissionRefresh` the
content of data scopes. When cron fires within a day, and what a task does. Text rendering and file
formats (templates of the generator, excelx, checks of uploaded content),
configuration, reads without shared state, and
development tools (`cmd/contractcheck`, `cmd/perfbench`,
`cmd/perfseed`, `cmd/routeaudit`). Each component's note in `PROJECT.json` says what is left
out and why.
