-------------------------- MODULE PermissionRefresh --------------------------
(***************************************************************************)
(* How the service keeps the authority stored in login sessions in step    *)
(* with the database: logins, authenticated requests, permission changes,  *)
(* account revocations and the compensation of failed refreshes, as        *)
(* concurrent actors over the Redis store of SessionStore.                 *)
(*                                                                         *)
(* permissionRefreshMu serialises what reads the database and then writes  *)
(* a snapshot; renewals, logouts, revocations and expiry run without it.   *)
(* Taking a lock is merged with the first read made under it.  A Redis or  *)
(* database call that fails, with or without its effect, spends one fault. *)
(***************************************************************************)
EXTENDS SessionStore

CONSTANTS
    Requests, Logins, Mutators, Revokers,  \* concurrent handlers of each kind
    Kinds,            \* which authority the permission changes touch
    MaxRetries,       \* maxSessionRefreshRetries
    MaxVersion,       \* bound: permission changes per user
    MaxRevocations,   \* bound: account revocations per user
    MaxRevision,      \* bound: getInfo refreshes start below it
    MaxFaults,        \* bound: failing Redis or database calls
    MaxCrashes        \* bound: process crashes

ASSUME KindsAssumption == Kinds \subseteq {"assigned", "granted"}
ASSUME HandlerAssumption ==
    /\ None \notin Requests \cup Logins \cup Mutators \cup Revokers
    /\ Requests \cap Logins = {} /\ Requests \cap Mutators = {} /\ Logins \cap Mutators = {}

VARIABLES
    database,             \* user -> what its rows hold
    permissionRefreshMu,  \* holder of the global permission lock
    userWriteMu,          \* holder of the user domain lock
    pending,              \* permissionRevocations: users awaiting cleanup
    request, login, mutator, revoker,  \* the handlers' local state
    born,                 \* token -> how its session came about (history)
    faults, crashes       \* failures so far (bounds)

locks == <<permissionRefreshMu, userWriteMu>>
handlers == <<request, login, mutator, revoker>>
vars == <<storeVars, database, locks, pending, handlers, born, faults, crashes>>

NoSnap == [assigned |-> 0, granted |-> 0]
SnapshotOf(u) == [assigned |-> database[u].assigned, granted |-> database[u].granted]

NoRequest == [pc |-> "idle", token |-> None, seen |-> None, copy |-> None,
              version |-> 0, snap |-> NoSnap, tries |-> 1, info |-> FALSE]
NoLogin == [pc |-> "idle", user |-> None, generation |-> 0, credential |-> 0,
            snap |-> NoSnap, version |-> 0, window |-> FALSE]
NoMutator == [pc |-> "idle", users |-> {}, kind |-> "granted", failed |-> {},
              versions |-> [u \in Users |-> 0], snaps |-> [u \in Users |-> NoSnap],
              copies |-> [t \in Tokens |-> None]]
NoRevoker == [pc |-> "idle", users |-> {}]
NoBirth == [credential |-> 0, stale |-> FALSE, window |-> FALSE]

RequestPC == {"idle", "generation", "pending", "version", "stale", "locked", "load", "write",
              "reread", "compensate", "accepted", "handling"}
LoginPC == {"idle", "user", "lock", "version", "create"}
MutatorPC == {"idle", "advance", "commit", "collect", "refresh", "compensate"}

Account == [assigned: Nat, granted: Nat, credential: Nat]
Request == [pc: RequestPC, token: Tokens \cup {None}, seen: Session \cup {None},
            copy: Session \cup {None}, version: Nat, snap: Snapshot, tries: Nat, info: BOOLEAN]
Login == [pc: LoginPC, user: Users \cup {None}, generation: Nat, credential: Nat,
          snap: Snapshot, version: Nat, window: BOOLEAN]
Mutator == [pc: MutatorPC, users: SUBSET Users, kind: {"assigned", "granted"},
            failed: SUBSET Users, versions: [Users -> Nat], snaps: [Users -> Snapshot],
            copies: [Tokens -> Session \cup {None}]]
Revoker == [pc: {"idle", "revoked"}, users: SUBSET Users]
Birth == [credential: Nat, stale: BOOLEAN, window: BOOLEAN]

TypeOK ==
    /\ StoreTypeOK
    /\ database \in [Users -> Account]
    /\ permissionRefreshMu \in Requests \cup Logins \cup Mutators \cup {None}
    /\ userWriteMu \in Mutators \cup Revokers \cup {None}
    /\ pending \in SUBSET Users
    /\ request \in [Requests -> Request]
    /\ login \in [Logins -> Login]
    /\ mutator \in [Mutators -> Mutator]
    /\ revoker \in [Revokers -> Revoker]
    /\ born \in [Tokens -> Birth]
    /\ faults \in Nat
    /\ crashes \in Nat

Init ==
    /\ StoreInit
    /\ database = [u \in Users |-> [assigned |-> 0, granted |-> 0, credential |-> 0]]
    /\ permissionRefreshMu = None
    /\ userWriteMu = None
    /\ pending = {}
    /\ request = [r \in Requests |-> NoRequest]
    /\ login = [l \in Logins |-> NoLogin]
    /\ mutator = [m \in Mutators |-> NoMutator]
    /\ revoker = [w \in Revokers |-> NoRevoker]
    /\ born = [t \in Tokens |-> NoBirth]
    /\ faults = 0
    /\ crashes = 0

Fault == faults < MaxFaults /\ faults' = faults + 1
NoFault == UNCHANGED faults

\* One synchronous batch of the revocation queue: the pipeline reaches the
\* users in `hit', and reports success for those in `acked' only.
RevokeBatch(batch) ==
    \E hit \in SUBSET batch : \E acked \in SUBSET hit :
        /\ RevokeSessions(hit)
        /\ pending' = batch \ acked
        /\ IF acked = batch THEN NoFault ELSE Fault

-----------------------------------------------------------------------------
(* Login: only the steps that bear on the session it creates.              *)

\* The first account query has accepted the credential; the generation is read.
ReadGeneration(l, u) ==
    /\ login[l].pc = "idle"
    /\ \E t \in Tokens : owner[t] = None
    /\ login' = [login EXCEPT ![l] =
         [NoLogin EXCEPT !.pc = "user", !.user = u, !.generation = generation[u],
                         !.credential = database[u].credential,
                         !.window = \E w \in Revokers : u \in revoker[w].users]]
    /\ UNCHANGED <<storeVars, database, locks, pending, request, mutator, revoker, born, faults, crashes>>

\* The second query (SelectUserByID) checks the credential again and loads the
\* roles the session will carry.
ReadUser(l) ==
    LET u == login[l].user IN
    /\ login[l].pc = "user"
    /\ login' = [login EXCEPT ![l] =
         IF database[u].credential # @.credential THEN NoLogin
         ELSE [@ EXCEPT !.pc = "lock", !.snap.assigned = database[u].assigned]]
    /\ UNCHANGED <<storeVars, database, locks, pending, request, mutator, revoker, born, faults, crashes>>

\* Mutant: the menu permissions are read without waiting for the lock.
LoadMenusUnlocked(l) ==
    /\ login[l].pc = "lock"
    /\ permissionRefreshMu' = l
    /\ login' = [login EXCEPT ![l] = [@ EXCEPT !.pc = "version",
                              !.snap.granted = database[login[l].user].granted]]
    /\ UNCHANGED <<storeVars, database, userWriteMu, pending, request, mutator, revoker, born, faults, crashes>>

\* Under the lock: GetMenuPermission for the roles loaded above ...
LoadMenus(l) ==
    /\ login[l].pc = "lock"
    /\ permissionRefreshMu = None
    /\ permissionRefreshMu' = l
    /\ login' = [login EXCEPT ![l] = [@ EXCEPT !.pc = "version",
                              !.snap.granted = database[login[l].user].granted]]
    /\ UNCHANGED <<storeVars, database, userWriteMu, pending, request, mutator, revoker, born, faults, crashes>>

\* ... then the permission version ...
ReadPermissionVersion(l) ==
    /\ login[l].pc = "version"
    /\ \/ /\ login' = [login EXCEPT ![l] = [@ EXCEPT !.pc = "create", !.version = permVersion[login[l].user]]]
          /\ NoFault
          /\ UNCHANGED permissionRefreshMu
       \/ /\ Fault
          /\ login' = [login EXCEPT ![l] = NoLogin]
          /\ permissionRefreshMu' = None
    /\ UNCHANGED <<storeVars, database, userWriteMu, pending, request, mutator, revoker, born, crashes>>

NewSession(l) ==
    [user |-> login[l].user, generation |-> login[l].generation, revision |-> 0,
     version |-> login[l].version, snap |-> login[l].snap]

\* ... then createTokenLocked: the session, or errSessionChanged.  A session
\* whose login fails after it was stored is like one that nobody uses.
CreateToken(l) ==
    /\ login[l].pc = "create"
    /\ login' = [login EXCEPT ![l] = NoLogin]
    /\ permissionRefreshMu' = None
    /\ \/ /\ \E t \in Tokens :
               /\ CreateSession(t, NewSession(l))
               /\ born' = [born EXCEPT ![t] =
                    [credential |-> login[l].credential, window |-> login[l].window,
                     stale |-> login[l].snap # SnapshotOf(login[l].user)]]
          /\ NoFault
       \/ CreateResult(NewSession(l)) # "ok" /\ UNCHANGED <<storeVars, born>> /\ NoFault
       \/ UNCHANGED <<storeVars, born>> /\ Fault
    /\ UNCHANGED <<database, userWriteMu, pending, request, mutator, revoker, crashes>>

-----------------------------------------------------------------------------
(* An authenticated request: GetLoginUser, VerifyToken, then the handler.   *)

Leave(r) == request' = [request EXCEPT ![r] = NoRequest]
Goto(r, pc) == request' = [request EXCEPT ![r] = [@ EXCEPT !.pc = pc]]
UserOf(r) == owner[request[r].token]

\* GetLoginUserByKey reads the session ...
Receive(r, t) ==
    /\ request[r].pc = "idle"
    /\ Live(t)
    /\ request' = [request EXCEPT ![r] =
         [NoRequest EXCEPT !.pc = "generation", !.token = t, !.seen = session[t]]]
    /\ UNCHANGED <<storeVars, database, locks, pending, login, mutator, revoker, born, faults, crashes>>

\* ... and then the generation; on a mismatch it deletes the token's session,
\* which a revocation has already done.  A failed read turns the request away.
CheckGeneration(r) ==
    LET s == request[r].seen IN
    /\ request[r].pc = "generation"
    /\ \/ /\ s.generation = generation[s.user]
          /\ Goto(r, "pending")
          /\ NoFault
          /\ UNCHANGED storeVars
       \/ /\ s.generation # generation[s.user]
          /\ Leave(r)
          /\ NoFault
          /\ IF Live(request[r].token) THEN DeleteSession(request[r].token)
                                       ELSE UNCHANGED storeVars
       \/ Leave(r) /\ Fault /\ UNCHANGED storeVars
    /\ UNCHANGED <<database, locks, pending, login, mutator, revoker, born, crashes>>

CheckPending(r) ==
    /\ request[r].pc = "pending"
    /\ IF request[r].seen.user \in pending THEN Leave(r) ELSE Goto(r, "version")
    /\ UNCHANGED <<storeVars, database, locks, pending, login, mutator, revoker, born, faults, crashes>>

\* Mutant: the session's permission version is not compared.
CheckVersionNever(r) ==
    /\ request[r].pc = "version"
    /\ Goto(r, "accepted")
    /\ UNCHANGED <<storeVars, database, locks, pending, login, mutator, revoker, born, faults, crashes>>

CheckVersion(r) ==
    LET s == request[r].seen IN
    /\ request[r].pc = "version"
    /\ \/ Goto(r, IF s.version = permVersion[s.user] THEN "accepted" ELSE "stale") /\ NoFault
       \/ Leave(r) /\ Fault
    /\ UNCHANGED <<storeVars, database, locks, pending, login, mutator, revoker, born, crashes>>

\* Mutant: the lazy refresh does not take the permission lock.
LockStaleNever(r) ==
    /\ request[r].pc = "stale"
    /\ IF Live(request[r].token)
       THEN request' = [request EXCEPT ![r] = [@ EXCEPT !.pc = "locked", !.copy = session[request[r].token]]]
       ELSE Leave(r)
    /\ UNCHANGED <<storeVars, database, locks, pending, login, mutator, revoker, born, faults, crashes>>

\* refreshStaleLoginUser: lock, and read the session again.  Read in one step:
\* a generation mismatch means a revocation came between the two reads, and
\* then the session is gone.
LockStale(r) ==
    /\ request[r].pc = "stale"
    /\ permissionRefreshMu = None
    /\ \/ /\ Live(request[r].token)
          /\ permissionRefreshMu' = r
          /\ request' = [request EXCEPT ![r] = [@ EXCEPT !.pc = "locked", !.copy = session[request[r].token]]]
          /\ NoFault
       \/ ~ Live(request[r].token) /\ Leave(r) /\ NoFault /\ UNCHANGED permissionRefreshMu
       \/ Leave(r) /\ Fault /\ UNCHANGED permissionRefreshMu
    /\ UNCHANGED <<storeVars, database, userWriteMu, pending, login, mutator, revoker, born, crashes>>

\* Somebody else may have refreshed it meanwhile; a failed read rejects.
ReadVersionLocked(r) ==
    LET c == request[r].copy IN
    /\ request[r].pc = "locked"
    /\ \/ /\ c.version = permVersion[c.user]
          /\ request' = [request EXCEPT ![r] = [@ EXCEPT !.pc = "accepted", !.seen = c]]
          /\ permissionRefreshMu' = None
          /\ NoFault
       \/ /\ c.version # permVersion[c.user]
          /\ request' = [request EXCEPT ![r] = [@ EXCEPT !.pc = "load", !.version = permVersion[c.user]]]
          /\ UNCHANGED permissionRefreshMu
          /\ NoFault
       \/ Leave(r) /\ permissionRefreshMu' = None /\ Fault
    /\ UNCHANGED <<storeVars, database, userWriteMu, pending, login, mutator, revoker, born, crashes>>

\* loadPermissionSnapshot; getInfo reads the version after it.
LoadSnapshot(r) ==
    LET u == UserOf(r) IN
    /\ request[r].pc = "load"
    /\ \/ /\ request' = [request EXCEPT ![r] = [@ EXCEPT !.pc = "write", !.snap = SnapshotOf(u),
                           !.version = IF request[r].info THEN permVersion[u] ELSE request[r].version]]
          /\ NoFault
       \/ Goto(r, "compensate") /\ Fault
    /\ UNCHANGED <<storeVars, database, locks, pending, login, mutator, revoker, born, crashes>>

\* writeSessionPermissions, and what refreshSessionPermissionsRaw makes of its
\* result; the call may fail after its effect or without it.  Only the
\* authentication path clears the pending mark.
WritePermissions(r) ==
    LET q == request[r]
        updated == Updated(q.copy, q.version, q.snap)
        result == ReplaceResult(q.token, q.copy, q.version)
    IN
    /\ q.pc = "write"
    /\ \/ /\ UpdateSessionPermissions(q.token, q.copy, q.version, q.snap)
          /\ \/ /\ request' = [request EXCEPT ![r] = [@ EXCEPT !.seen = updated, !.copy = None,
                                 !.pc = IF q.info THEN "handling" ELSE "accepted"]]
                /\ permissionRefreshMu' = None
                /\ pending' = IF q.info THEN pending ELSE pending \ {q.copy.user}
                /\ NoFault
             \/ Goto(r, "compensate") /\ Fault /\ UNCHANGED <<permissionRefreshMu, pending>>
       \/ /\ result # "ok"
          /\ Goto(r, IF result \in {"revision", "version"} /\ q.tries < MaxRetries
                     THEN "reread" ELSE "compensate")
          /\ NoFault
          /\ UNCHANGED <<storeVars, permissionRefreshMu, pending>>
       \/ Goto(r, "compensate") /\ Fault /\ UNCHANGED <<storeVars, permissionRefreshMu, pending>>
    /\ UNCHANGED <<database, userWriteMu, login, mutator, revoker, born, crashes>>

\* The conflict branch of refreshSessionPermissionsRaw.
Reread(r) ==
    LET q == request[r] IN
    /\ q.pc = "reread"
    /\ \/ /\ Live(q.token)
          /\ request' = [request EXCEPT ![r] = [@ EXCEPT !.pc = "write", !.copy = session[q.token],
                           !.snap = SnapshotOf(UserOf(r)),
                           !.version = permVersion[UserOf(r)], !.tries = q.tries + 1]]
          /\ NoFault
       \/ ~ Live(q.token) /\ Goto(r, "compensate") /\ NoFault
       \/ Goto(r, "compensate") /\ Fault
    /\ UNCHANGED <<storeVars, database, locks, pending, login, mutator, revoker, born, crashes>>

\* failClosedSessionRefresh and failClosedUserRefresh.
CompensateRequest(r) ==
    /\ request[r].pc = "compensate"
    /\ RevokeBatch(pending \cup {UserOf(r)})
    /\ Leave(r)
    /\ permissionRefreshMu' = None
    /\ UNCHANGED <<database, userWriteMu, login, mutator, revoker, born, crashes>>

\* Mutant: the renewal is a plain SET.
RenewTokenPlainSet(r) ==
    LET q == request[r] IN
    /\ q.pc = "accepted"
    /\ StoreSession(q.token, q.seen)
    /\ request' = [request EXCEPT ![r] = [@ EXCEPT !.pc = "handling"]]
    /\ UNCHANGED <<database, locks, pending, login, mutator, revoker, born, faults, crashes>>

\* RefreshToken, when little of the session's life remains.  Its failure, with
\* or without its effect, does not fail the request.
RenewToken(r) ==
    LET q == request[r]
        held == IF q.copy = None THEN q.seen ELSE q.copy
        result == ReplaceResult(q.token, held, held.version)
    IN
    /\ q.pc = "accepted"
    /\ \/ /\ RenewSession(q.token, held)
          /\ request' = [request EXCEPT ![r] = [@ EXCEPT !.pc = "handling", !.seen = held,
                           !.copy = None, !.tries = 1]]
          /\ NoFault
       \/ /\ result # "ok"
          /\ request' = [request EXCEPT ![r] =
               IF result = "revision" /\ q.tries < MaxRetries
               THEN [@ EXCEPT !.copy = session[q.token], !.tries = q.tries + 1]
               ELSE [@ EXCEPT !.pc = "handling", !.copy = None, !.tries = 1]]
          /\ NoFault
          /\ UNCHANGED storeVars
       \/ /\ RenewSession(q.token, held) \/ UNCHANGED storeVars
          /\ request' = [request EXCEPT ![r] = [@ EXCEPT !.pc = "handling", !.copy = None, !.tries = 1]]
          /\ Fault
    /\ UNCHANGED <<database, locks, pending, login, mutator, revoker, born, crashes>>

\* getInfo refreshes a session whose permissions differ from the database's,
\* starting from the copy the request carries.
StartInfo(r) ==
    LET q == request[r] IN
    /\ q.pc \in {"accepted", "handling"}
    /\ database[UserOf(r)].granted # q.seen.snap.granted
    /\ q.seen.revision < MaxRevision
    /\ permissionRefreshMu = None
    /\ permissionRefreshMu' = r
    /\ request' = [request EXCEPT ![r] = [@ EXCEPT !.pc = "load", !.copy = q.seen,
                     !.tries = 1, !.info = TRUE]]
    /\ UNCHANGED <<storeVars, database, userWriteMu, pending, login, mutator, revoker, born, faults, crashes>>

Finish(r) ==
    /\ request[r].pc \in {"accepted", "handling"}
    /\ Leave(r)
    /\ UNCHANGED <<storeVars, database, locks, pending, login, mutator, revoker, born, faults, crashes>>

-----------------------------------------------------------------------------
(* A permission change: mutatePermissionState.  A change of assignments     *)
(* (AssignUserRoles, GrantAuthUser, ...) also holds the user domain lock.   *)

\* Mutant: the error return after advancing the versions keeps the lock.
ReleasedLeak(m) ==
    /\ mutator' = [mutator EXCEPT ![m] = NoMutator]
    /\ permissionRefreshMu' = IF mutator[m].pc = "advance" THEN m ELSE None
    /\ userWriteMu' = IF mutator[m].kind = "assigned" THEN None ELSE userWriteMu

Released(m) ==
    /\ mutator' = [mutator EXCEPT ![m] = NoMutator]
    /\ permissionRefreshMu' = None
    /\ userWriteMu' = IF mutator[m].kind = "assigned" THEN None ELSE userWriteMu

BeginMutation(m, us, kind) ==
    /\ mutator[m].pc = "idle"
    /\ \A u \in us : permVersion[u] < MaxVersion
    /\ permissionRefreshMu = None
    /\ permissionRefreshMu' = m
    /\ IF kind = "assigned" THEN userWriteMu = None /\ userWriteMu' = m
                            ELSE UNCHANGED userWriteMu
    /\ mutator' = [mutator EXCEPT ![m] = [@ EXCEPT !.pc = "advance", !.users = us, !.kind = kind]]
    /\ UNCHANGED <<storeVars, database, pending, request, login, revoker, born, faults, crashes>>

\* Mutant: a change of assignments does not advance the versions.
AdvanceVersionsGrantsOnly(m) ==
    /\ mutator[m].pc = "advance"
    /\ AdvancePermissionVersion(IF mutator[m].kind = "granted" THEN mutator[m].users ELSE {})
    /\ mutator' = [mutator EXCEPT ![m] = [@ EXCEPT !.pc = "commit", !.versions = permVersion']]
    /\ UNCHANGED <<database, locks, pending, request, login, revoker, born, faults, crashes>>

\* advancePermissionVersions; when it fails, some users may have been advanced.
AdvanceVersions(m) ==
    /\ mutator[m].pc = "advance"
    /\ \/ /\ AdvancePermissionVersion(mutator[m].users)
          /\ mutator' = [mutator EXCEPT ![m] = [@ EXCEPT !.pc = "commit", !.versions = permVersion']]
          /\ NoFault
          /\ UNCHANGED locks
       \/ /\ \E part \in SUBSET mutator[m].users : AdvancePermissionVersion(part)
          /\ Fault
          /\ Released(m)
    /\ UNCHANGED <<database, pending, request, login, revoker, born, crashes>>

Changed(us, kind) ==
    [u \in Users |-> IF u \notin us THEN database[u]
                     ELSE IF kind = "assigned"
                     THEN [database[u] EXCEPT !.assigned = @ + 1]
                     ELSE [database[u] EXCEPT !.granted = @ + 1]]

\* The database write.  A failed one may still have been committed.
CommitMutation(m) ==
    LET changed == Changed(mutator[m].users, mutator[m].kind) IN
    /\ mutator[m].pc = "commit"
    /\ \/ /\ database' = changed
          /\ mutator' = [mutator EXCEPT ![m] = [@ EXCEPT !.pc = "collect"]]
          /\ NoFault
          /\ UNCHANGED locks
       \/ /\ database' \in {database, changed}
          /\ Fault
          /\ Released(m)
    /\ UNCHANGED <<storeVars, pending, request, login, revoker, born, crashes>>

Online(us) == {u \in us : \E t \in index[u] : Live(t)}

\* refreshOnlineUsersByIDLocked up to its loop: mark, read the indexed sessions
\* (dropping stale members), unmark users who are not online, load snapshots.
CollectSessions(m) ==
    LET us == mutator[m].users IN
    /\ mutator[m].pc = "collect"
    /\ \/ /\ CleanIndex(us)
          /\ pending' = (pending \cup us) \ (us \ Online(us))
          /\ \/ /\ mutator' = [mutator EXCEPT ![m] = [@ EXCEPT !.pc = "refresh",
                     !.snaps = [u \in Users |-> SnapshotOf(u)],
                     !.copies = [t \in Tokens |->
                        IF \E u \in us : t \in index[u] THEN session[t] ELSE None]]]
                /\ NoFault
             \/ /\ mutator' = [mutator EXCEPT ![m] = [@ EXCEPT !.pc = "compensate", !.failed = Online(us)]]
                /\ Fault
       \/ /\ pending' = pending \cup us
          /\ mutator' = [mutator EXCEPT ![m] = [@ EXCEPT !.pc = "compensate", !.failed = us]]
          /\ Fault
          /\ \E part \in SUBSET us : CleanIndex(part)
    /\ UNCHANGED <<database, locks, request, login, revoker, born, crashes>>

Unwritten(m, u) == {t \in Tokens : mutator[m].copies[t] # None /\ mutator[m].copies[t].user = u}

\* Mutant: a failed session is skipped without noting its user.
RefreshSessionSkipping(m, t) ==
    LET c == mutator[m].copies[t]
        u == c.user
        n == mutator[m].snaps[u]
        v == mutator[m].versions[u]
    IN
    /\ mutator[m].pc = "refresh"
    /\ c # None
    /\ \/ UpdateSessionPermissions(t, c, v, n) /\ NoFault
       \/ Fault /\ UNCHANGED storeVars
    /\ mutator' = [mutator EXCEPT ![m].copies[t] = None]
    /\ UNCHANGED <<database, locks, pending, request, login, revoker, born, crashes>>

\* One session of the loop.  The first failure of a user skips the rest of that
\* user's sessions.  The copies were read under the lock, so the script finds
\* the session unchanged or gone (LockedCopiesCurrent) and nothing is retried;
\* its call may fail after its effect, or without it on a session that lives.
RefreshSession(m, t) ==
    LET c == mutator[m].copies[t]
        u == c.user
        n == mutator[m].snaps[u]
        v == mutator[m].versions[u]
    IN
    /\ mutator[m].pc = "refresh"
    /\ c # None
    /\ \/ /\ UpdateSessionPermissions(t, c, v, n)
          /\ mutator' = [mutator EXCEPT ![m].copies[t] = None]
          /\ pending' = IF Unwritten(m, u) = {t} THEN pending \ {u} ELSE pending
          /\ NoFault
       \/ /\ \/ ReplaceResult(t, c, v) \in {"generation", "gone"} /\ NoFault /\ UNCHANGED storeVars
             \/ UpdateSessionPermissions(t, c, v, n) /\ Fault
             \/ UNCHANGED storeVars /\ Fault
          /\ mutator' = [mutator EXCEPT ![m] = [@ EXCEPT !.failed = mutator[m].failed \cup {u},
               !.copies = [x \in Tokens |-> IF x \in Unwritten(m, u) THEN None ELSE mutator[m].copies[x]]]]
          /\ UNCHANGED pending
    /\ UNCHANGED <<database, locks, request, login, revoker, born, crashes>>

FinishMutation(m) ==
    /\ mutator[m].pc = "refresh"
    /\ \A t \in Tokens : mutator[m].copies[t] = None
    /\ IF mutator[m].failed = {} THEN Released(m)
       ELSE mutator' = [mutator EXCEPT ![m] = [@ EXCEPT !.pc = "compensate"]] /\ UNCHANGED locks
    /\ UNCHANGED <<storeVars, database, pending, request, login, revoker, born, faults, crashes>>

CompensateMutation(m) ==
    /\ mutator[m].pc = "compensate"
    /\ RevokeBatch(pending \cup mutator[m].failed)
    /\ Released(m)
    /\ UNCHANGED <<database, request, login, revoker, born, crashes>>

-----------------------------------------------------------------------------
(* Disabling or deleting accounts, or changing a password: every session is *)
(* revoked, then the row is written, all under the user domain lock.        *)

RevokeAccounts(w, us) ==
    /\ revoker[w].pc = "idle"
    /\ userWriteMu = None
    /\ \A u \in us : database[u].credential < MaxRevocations
    /\ \/ /\ RevokeSessions(us)
          /\ revoker' = [revoker EXCEPT ![w] = [pc |-> "revoked", users |-> us]]
          /\ userWriteMu' = w
          /\ NoFault
       \/ /\ \E part \in SUBSET us : RevokeSessions(part)
          /\ Fault
          /\ UNCHANGED <<userWriteMu, revoker>>
    /\ UNCHANGED <<database, permissionRefreshMu, pending, request, login, mutator, born, crashes>>

WriteAccounts(w) ==
    LET us == revoker[w].users IN
    /\ revoker[w].pc = "revoked"
    /\ \/ /\ database' = [u \in Users |-> IF u \in us THEN [database[u] EXCEPT !.credential = @ + 1]
                                          ELSE database[u]]
          /\ NoFault
       \/ UNCHANGED database /\ Fault
    /\ revoker' = [revoker EXCEPT ![w] = NoRevoker]
    /\ userWriteMu' = None
    /\ UNCHANGED <<storeVars, permissionRefreshMu, pending, request, login, mutator, born, crashes>>

-----------------------------------------------------------------------------
(* The revocation worker, logout and forced logout, expiry, and a crash.    *)

Cleanup ==
    /\ pending # {}
    /\ RevokeBatch(pending)
    /\ UNCHANGED <<database, locks, handlers, born, crashes>>

Logout(t) ==
    /\ DeleteSession(t)
    /\ UNCHANGED <<database, locks, pending, handlers, born, faults, crashes>>

\* A login takes far less than a session's life, so the generation key it has
\* read does not expire under it.
Expire ==
    /\ \/ \E t \in Tokens : ExpireSession(t)
       \/ \E u \in Users : index[u] # {} /\ ExpireIndex(u)
       \/ \E u \in Users : /\ generation[u] # 0
                           /\ \A l \in Logins : login[l].user # u
                           /\ ExpireGeneration(u)
    /\ UNCHANGED <<database, locks, pending, handlers, born, faults, crashes>>

\* The process dies and restarts: Redis and the database keep their state.
Crash ==
    /\ crashes < MaxCrashes
    /\ crashes' = crashes + 1
    /\ permissionRefreshMu' = None
    /\ userWriteMu' = None
    /\ pending' = {}
    /\ request' = [r \in Requests |-> NoRequest]
    /\ login' = [l \in Logins |-> NoLogin]
    /\ mutator' = [m \in Mutators |-> NoMutator]
    /\ revoker' = [w \in Revokers |-> NoRevoker]
    /\ UNCHANGED <<storeVars, database, born, faults>>

-----------------------------------------------------------------------------
LoginStep(l) ==
    \/ \E u \in Users : ReadGeneration(l, u)
    \/ ReadUser(l)
    \/ LoadMenus(l)
    \/ ReadPermissionVersion(l)
    \/ CreateToken(l)

RequestStep(r) ==
    \/ \E t \in Tokens : Receive(r, t)
    \/ CheckGeneration(r)
    \/ CheckPending(r)
    \/ CheckVersion(r)
    \/ LockStale(r)
    \/ ReadVersionLocked(r)
    \/ LoadSnapshot(r)
    \/ WritePermissions(r)
    \/ Reread(r)
    \/ CompensateRequest(r)
    \/ RenewToken(r)
    \/ StartInfo(r)
    \/ Finish(r)

MutatorStep(m) ==
    \/ \E us \in (SUBSET Users) \ {{}}, kind \in Kinds : BeginMutation(m, us, kind)
    \/ AdvanceVersions(m)
    \/ CommitMutation(m)
    \/ CollectSessions(m)
    \/ \E t \in Tokens : RefreshSession(m, t)
    \/ FinishMutation(m)
    \/ CompensateMutation(m)

RevokerStep(w) ==
    \/ \E us \in (SUBSET Users) \ {{}} : RevokeAccounts(w, us)
    \/ WriteAccounts(w)

Next ==
    \/ \E l \in Logins : LoginStep(l)
    \/ \E r \in Requests : RequestStep(r)
    \/ \E m \in Mutators : MutatorStep(m)
    \/ \E w \in Revokers : RevokerStep(w)
    \/ \E t \in Tokens : Logout(t)
    \/ Cleanup
    \/ Expire
    \/ Crash

Spec == Init /\ [][Next]_vars

\* Handlers keep running once started; sync.Mutex hands the lock to its oldest
\* waiter when that one has waited long enough; the worker retries until the
\* queue is empty.  Nothing is assumed about clients, operators, expiry or faults.
RequestWork(r) ==
    \/ CheckGeneration(r) \/ CheckPending(r) \/ CheckVersion(r) \/ ReadVersionLocked(r)
    \/ LoadSnapshot(r) \/ WritePermissions(r) \/ Reread(r) \/ CompensateRequest(r)

MutatorWork(m) ==
    \/ AdvanceVersions(m) \/ CommitMutation(m) \/ CollectSessions(m)
    \/ \E t \in Tokens : RefreshSession(m, t)
    \/ FinishMutation(m) \/ CompensateMutation(m)

Fairness ==
    /\ \A r \in Requests : WF_vars(RequestWork(r)) /\ SF_vars(LockStale(r))
    /\ \A l \in Logins : WF_vars(ReadPermissionVersion(l)) /\ WF_vars(CreateToken(l))
    /\ \A m \in Mutators : WF_vars(MutatorWork(m))
    /\ WF_vars(Cleanup)

FairSpec == Spec /\ Fairness

-----------------------------------------------------------------------------
(* Properties.                                                             *)

LockedRequestPC == {"locked", "load", "write", "reread", "compensate"}

\* Whoever is inside the permission critical section holds its lock, so a
\* snapshot is read and written, and a permission change is announced,
\* committed and propagated, by one handler at a time (token.go, login.go).
LockDiscipline ==
    /\ \A r \in Requests : request[r].pc \in LockedRequestPC => permissionRefreshMu = r
    /\ \A l \in Logins : login[l].pc \in {"version", "create"} => permissionRefreshMu = l
    /\ \A m \in Mutators : mutator[m].pc # "idle" => permissionRefreshMu = m

\* A stored session whose permission version is current carries the menu
\* permissions now in the database, at every moment, through failed and
\* ambiguous calls, crashes and expiry: comparing the two versions is enough
\* to authenticate (GetLoginUser).
CurrentVersionIsFresh ==
    \A t \in Tokens :
        Live(t) /\ session[t].version = permVersion[session[t].user]
            => session[t].snap.granted = database[session[t].user].granted

\* The same for roles, except in a session that was stale when it was created
\* and has not been refreshed since (Login loads the roles before it locks).
RolesStaleOnlyFromBirth ==
    \A t \in Tokens :
        Live(t) /\ session[t].version = permVersion[session[t].user]
                /\ session[t].snap.assigned # database[session[t].user].assigned
            => session[t].revision = 0 /\ born[t].stale

\* When GetLoginUser accepts a request, what it hands to the handler is what the
\* database says at that moment: no request is served on permissions that were
\* withdrawn before it was accepted.
AcceptsCurrent ==
    [][\A r \in Requests :
         request[r].pc # "accepted" /\ request'[r].pc = "accepted" =>
           request'[r].seen.snap.granted = database'[request'[r].seen.user].granted]_vars

\* What a permission change read of a session under the lock is still what is
\* stored, unless the session is gone: renewals leave it alone, so the refresh
\* loop never conflicts and cannot exhaust its retries.
LockedCopiesCurrent ==
    /\ \A m \in Mutators, t \in Tokens :
         mutator[m].copies[t] # None => session[t] \in {None, mutator[m].copies[t]}
    /\ \A r \in Requests :
         request[r].pc \in {"locked", "load", "write"} /\ ~ request[r].info =>
           session[request[r].token] \in {None, request[r].copy}

\* While a change is being propagated, every session of an affected user that
\* still has the old version is either still to be written or its user is known
\* to have failed and will be revoked: one failure among several
\* users or sessions loses none of the others (refreshOnlineUsersByIDLocked).
NobodyForgotten ==
    \A m \in Mutators, t \in Tokens :
        /\ mutator[m].pc \in {"refresh", "compensate"}
        /\ Live(t)
        /\ session[t].user \in mutator[m].users
        /\ session[t].version # permVersion[session[t].user]
        => mutator[m].copies[t] # None \/ session[t].user \in mutator[m].failed

\* A session that outlives the account state it was authenticated against was
\* created by a login that read the generation between the revocation and the
\* database write (the callers of RevokeUserSessions revoke first).
RevokedOnlyFromWindow ==
    \A t \in Tokens :
        Live(t) /\ born[t].credential # database[session[t].user].credential => born[t].window

\* login.go:119-120: a disabled, deleted or re-keyed account has no session once
\* the operation has finished, however it interleaves with a login.
NoSessionAfterRevocation ==
    \A t \in Tokens :
        Live(t) => \/ born[t].credential = database[session[t].user].credential
                  \/ \E w \in Revokers : session[t].user \in revoker[w].users

\* login.go:145-146: a login squeezed between the version advance and the commit
\* does not leave a permanently stale snapshot behind.
NoStaleRoles ==
    \A t \in Tokens :
        Live(t) /\ session[t].version = permVersion[session[t].user]
            => session[t].snap.assigned = database[session[t].user].assigned

\* A request that finds its session stale is decided, accepted or turned away:
\* the lock it waits for is always released, after failures too.
StaleRequestDecided ==
    \A r \in Requests : request[r].pc = "stale" ~> request[r].pc \in {"accepted", "idle"}

\* A user marked for revocation, who is locked out meanwhile, does not stay
\* marked: the refresh unmarks it or the sessions are revoked.
PendingDrains == pending # {} ~> pending = {}

=============================================================================
