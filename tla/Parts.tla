-------------------------------- MODULE Parts --------------------------------
(***************************************************************************)
(* Small components that share nothing, side by side: in a behaviour one   *)
(* of them moves and the others stay as they began.  Every component's own *)
(* specification follows, so what is proved of it holds here.              *)
(***************************************************************************)
EXTENDS ReferenceCache, RevocationQueue, DeptTree, LoginGuards, WriteRequests,
        GeneratorTables, GeneratedFiles, MenuRoutes, UniqueNames, NoticeReads, UserFiles,
        ReferenceTables, CacheMonitor, OnlineUsers, ListPages, CronTranslation

VARIABLE part

partsVars == <<part, vars, queueVars, treeVars, loginVars, genVars, fileVars, menuVars, nameVars, noticeVars, userFileVars, refVars, onlineVars, monitorVars, listVars, requestVars, cronVars>>

PartsInit ==
    /\ part \in {"cache", "queue", "tree", "login", "tables", "files", "menus", "names",
                 "notices", "uploads", "dicts", "params", "online", "monitor", "lists", "requests", "cron"}
    /\ Init /\ (part # "cache" => kind = "config" /\ \A k \in Keys : cache[k] = None)
    /\ QueueInit
    /\ TreeInit /\ (part # "tree" => operator = CHOOSE user \in Operators : TRUE)
    /\ GuardsInit
    /\ GenInit /\ (part # "tables" => \A t \in Tables, c \in Columns : schema[t][c] = 0)
    /\ FilesInit
    /\ MenusInit
    /\ NamesInit /\ (part # "names" => entity = "user")
    /\ NoticesInit
    /\ UserFilesInit /\ (part # "uploads" => \A u \in Owners : avatar[u] = NoFile)
    /\ RefInit
    /\ part # "dicts" => dictTypes = [i \in {} |-> 0]
    /\ part # "params" => params = [i \in {} |-> 0]
    /\ OnlineInit /\ (part # "online" => live = {})
    /\ MonitorInit
    /\ ListInit /\ (part # "lists" => list = SelectUserPage /\ lastRow = 0)
    /\ RequestsInit
    /\ CronInit

PartsNext ==
    \/ part = "cache" /\ Next /\ UNCHANGED <<part, queueVars, treeVars, loginVars, genVars, fileVars, menuVars, nameVars, noticeVars, userFileVars, refVars, onlineVars, monitorVars, listVars, requestVars, cronVars>>
    \/ part = "queue" /\ QueueNext /\ UNCHANGED <<part, vars, treeVars, loginVars, genVars, fileVars, menuVars, nameVars, noticeVars, userFileVars, refVars, onlineVars, monitorVars, listVars, requestVars, cronVars>>
    \/ part = "tree" /\ TreeNext /\ UNCHANGED <<part, vars, queueVars, loginVars, genVars, fileVars, menuVars, nameVars, noticeVars, userFileVars, refVars, onlineVars, monitorVars, listVars, requestVars, cronVars>>
    \/ part = "login" /\ GuardsNext /\ UNCHANGED <<part, vars, queueVars, treeVars, genVars, fileVars, menuVars, nameVars, noticeVars, userFileVars, refVars, onlineVars, monitorVars, listVars, requestVars, cronVars>>
    \/ part = "tables" /\ GenNext /\ UNCHANGED <<part, vars, queueVars, treeVars, loginVars, fileVars, menuVars, nameVars, noticeVars, userFileVars, refVars, onlineVars, monitorVars, listVars, requestVars, cronVars>>
    \/ part = "files" /\ FilesNext /\ UNCHANGED <<part, vars, queueVars, treeVars, loginVars, genVars, menuVars, nameVars, noticeVars, userFileVars, refVars, onlineVars, monitorVars, listVars, requestVars, cronVars>>
    \/ part = "menus" /\ MenusNext /\ UNCHANGED <<part, vars, queueVars, treeVars, loginVars, genVars, fileVars, nameVars, noticeVars, userFileVars, refVars, onlineVars, monitorVars, listVars, requestVars, cronVars>>
    \/ part = "names" /\ NamesNext /\ UNCHANGED <<part, vars, queueVars, treeVars, loginVars, genVars, fileVars, menuVars, noticeVars, userFileVars, refVars, onlineVars, monitorVars, listVars, requestVars, cronVars>>
    \/ part = "notices" /\ NoticesNext /\ UNCHANGED <<part, vars, queueVars, treeVars, loginVars, genVars, fileVars, menuVars, nameVars, userFileVars, refVars, onlineVars, monitorVars, listVars, requestVars, cronVars>>
    \/ part = "uploads" /\ UserFilesNext /\ UNCHANGED <<part, vars, queueVars, treeVars, loginVars, genVars, fileVars, menuVars, nameVars, noticeVars, refVars, onlineVars, monitorVars, listVars, requestVars, cronVars>>
    \/ part = "dicts" /\ DictNext /\ UNCHANGED <<part, vars, queueVars, treeVars, loginVars, genVars, fileVars, menuVars, nameVars, noticeVars, userFileVars, onlineVars, monitorVars, listVars, requestVars, cronVars>>
    \/ part = "params" /\ ParamsNext /\ UNCHANGED <<part, vars, queueVars, treeVars, loginVars, genVars, fileVars, menuVars, nameVars, noticeVars, userFileVars, onlineVars, monitorVars, listVars, requestVars, cronVars>>
    \/ part = "online" /\ OnlineNext /\ UNCHANGED <<part, vars, queueVars, treeVars, loginVars, genVars, fileVars, menuVars, nameVars, noticeVars, userFileVars, refVars, monitorVars, listVars, requestVars, cronVars>>
    \/ part = "monitor" /\ MonitorNext /\ UNCHANGED <<part, vars, queueVars, treeVars, loginVars, genVars, fileVars, menuVars, nameVars, noticeVars, userFileVars, refVars, onlineVars, listVars, requestVars, cronVars>>
    \/ part = "lists" /\ ListNext /\ UNCHANGED <<part, vars, queueVars, treeVars, loginVars, genVars, fileVars, menuVars, nameVars, noticeVars, userFileVars, refVars, onlineVars, monitorVars, requestVars, cronVars>>
    \/ part = "requests" /\ RequestsNext /\ UNCHANGED <<part, vars, queueVars, treeVars, loginVars, genVars, fileVars, menuVars, nameVars, noticeVars, userFileVars, refVars, onlineVars, monitorVars, listVars, cronVars>>
    \/ part = "cron" /\ CronNext /\ UNCHANGED <<part, vars, queueVars, treeVars, loginVars, genVars, fileVars, menuVars, nameVars, noticeVars, userFileVars, refVars, onlineVars, monitorVars, listVars, requestVars>>

PartsSpec == PartsInit /\ [][PartsNext]_partsVars

-----------------------------------------------------------------------------
PartsTypeOK ==
    /\ part = "cache" => TypeOK
    /\ part = "queue" => QueueTypeOK
    /\ part = "tree" => TreeTypeOK
    /\ part = "login" => GuardsTypeOK
    /\ part = "tables" => GenTypeOK
    /\ part = "files" => FilesTypeOK
    /\ part = "menus" => MenusTypeOK
    /\ part = "names" => NamesTypeOK
    /\ part = "notices" => NoticesTypeOK
    /\ part = "uploads" => UserFilesTypeOK
    /\ part \in {"dicts", "params"} => RefTypeOK
    /\ part = "online" => OnlineTypeOK
    /\ part = "monitor" => MonitorTypeOK
    /\ part = "lists" => ListTypeOK
    /\ part = "requests" => RequestsTypeOK
    /\ part = "cron" => CronTypeOK

\* What a list shows page by page, exports or claims to be complete is what there
\* is (online.go, page.go, export.go).
ListsComplete == OnlineListed /\ PagesComplete /\ ExportWhole

\* Nobody is pending for a revocation whom no batch and no worker will serve, and
\* the longest wait reported is real (permission_recovery.go).
QueueKept == [](part = "queue" => MarksServed) /\ OldestReported

\* Limits of guessing, repeating and exporting hold however many requests come at
\* once, and the record of an operation tells what happened (login.go, middleware).
RequestsGuarded ==
    /\ [](part = "login" => GuardsHold)
    /\ [][part = "login" => LockHolds]_loginVars
    /\ [](part = "requests" => RequestsSound)

\* Columns of the generator stay those of their tables with what was entered for
\* them; a file once there is never lost, and those of a whole table are of one
\* configuration (gen.go, gen_render.go).
GeneratorSound ==
    /\ [](part = "tables" => ColumnsConsistent)
    /\ [](part = "files" => OneEdition)
    /\ [][part = "tables" => IdentityKept]_genVars
    /\ [][part = "files" => CopyKept]_fileVars

\* What is marked as read is a notice, and was published then (notice.go).
NoticesKept ==
    /\ [](part = "notices" => ReadsHaveNotices)
    /\ [][part = "notices" => MarkedWhilePublished]_noticeVars

\* Dictionaries and parameters keep their names, their rows and their built-in
\* rows, and every cached value a write changes is dropped; clearing by hand
\* touches nothing else (dict.go, config.go, cache.go).
ReferencesSound ==
    /\ [][(part = "dicts" \/ part = "params") => RefTablesSound]_refVars
    /\ [][part = "monitor" => MonitorHarmless]_monitorVars

=============================================================================
