---------------------------- MODULE SessionStore ----------------------------
(***************************************************************************)
(* The login sessions kept in Redis, and the Lua scripts of                *)
(* internal/service/token.go that are the only writers of them.            *)
(*                                                                         *)
(* Per token: login_tokens:<uuid>, the serialised LoginUser.  Per user:    *)
(* login_user_sessions (the reverse index), login_user_generation and      *)
(* login_user_permission_version.  A script runs atomically in Redis, so   *)
(* it is one action; its callers (PermissionRefresh) choose its arguments. *)
(*                                                                         *)
(* A session carries two kinds of authority, each identified by the        *)
(* number of database changes it reflects: `assigned', what comes with the *)
(* user row (roles, their status and data scope, department), and          *)
(* `granted', the menu permissions of those roles.                         *)
(***************************************************************************)
EXTENDS Naturals

CONSTANTS
    Users,      \* user ids
    Tokens,     \* uuids a login may draw
    None        \* nil: no session, no owner, no lock holder

Snapshot == [assigned: Nat, granted: Nat]
Session == [user: Users, generation: Nat, revision: Nat, version: Nat, snap: Snapshot]

ASSUME NoneAssumption == None \notin Users \cup Tokens \cup Session

VARIABLES
    session,      \* token -> stored session
    index,        \* user -> tokens in the reverse index
    generation,   \* user -> session generation
    permVersion,  \* user -> permission version (never expires)
    owner         \* token -> user it was drawn for: uuids are never reused

storeVars == <<session, index, generation, permVersion, owner>>

StoreTypeOK ==
    /\ session \in [Tokens -> Session \cup {None}]
    /\ index \in [Users -> SUBSET Tokens]
    /\ generation \in [Users -> Nat]
    /\ permVersion \in [Users -> Nat]
    /\ owner \in [Tokens -> Users \cup {None}]

StoreInit ==
    /\ session = [t \in Tokens |-> None]
    /\ index = [u \in Users |-> {}]
    /\ generation = [u \in Users |-> 0]
    /\ permVersion = [u \in Users |-> 0]
    /\ owner = [t \in Tokens |-> None]

Live(t) == session[t] # None
LiveOf(u) == {t \in Tokens : Live(t) /\ session[t].user = u}

-----------------------------------------------------------------------------
(* The scripts.                                                            *)

\* Mutant: the generation the login read is not compared.
CreateResultAnyGeneration(s) ==
    IF s.version # permVersion[s.user] THEN "version" ELSE "ok"

\* createSessionScript: both the generation and the permission version the
\* login read must still be current.
CreateResult(s) ==
    IF s.generation # generation[s.user] THEN "generation"
    ELSE IF s.version # permVersion[s.user] THEN "version"
    ELSE "ok"

CreateSession(t, s) ==
    /\ owner[t] = None
    /\ CreateResult(s) = "ok"
    /\ session' = [session EXCEPT ![t] = s]
    /\ index' = [index EXCEPT ![s.user] = @ \cup {t}]
    /\ owner' = [owner EXCEPT ![t] = s.user]
    /\ UNCHANGED <<generation, permVersion>>

\* renewSessionScript and updateSessionPermissionsScript make the same tests in
\* the same order and store the bytes they are given: `held' is the copy the
\* caller read, `version' the permission version it expects.
ReplaceResult(t, held, version) ==
    IF held.generation # generation[held.user] THEN "generation"
    ELSE IF version # permVersion[held.user] THEN "version"
    ELSE IF ~ Live(t) THEN "gone"
    ELSE IF session[t].revision # held.revision THEN "revision"
    ELSE "ok"

StoreSession(t, s) ==
    /\ session' = [session EXCEPT ![t] = s]
    /\ index' = [index EXCEPT ![s.user] = @ \cup {t}]
    /\ UNCHANGED <<generation, permVersion, owner>>

\* Mutant: a renewal writes its copy back without the comparisons.
RenewSessionUnchecked(t, held) ==
    /\ Live(t)
    /\ StoreSession(t, held)

\* renewSessionScript: same snapshot, same revision, new TTL.
RenewSession(t, held) ==
    /\ ReplaceResult(t, held, held.version) = "ok"
    /\ StoreSession(t, held)

\* Mutant: permissions that could not be loaded are stored as nil.
UpdatedNilSnapshot(held, version, snap) ==
    [user |-> held.user, generation |-> held.generation, revision |-> held.revision + 1,
     version |-> version, snap |-> IF snap.granted = held.snap.granted THEN snap ELSE None]

\* updateSessionPermissionsScript: the revision moves on by one.
Updated(held, version, snap) ==
    [user |-> held.user, generation |-> held.generation, revision |-> held.revision + 1,
     version |-> version, snap |-> snap]

UpdateSessionPermissions(t, held, version, snap) ==
    /\ ReplaceResult(t, held, version) = "ok"
    /\ StoreSession(t, Updated(held, version, snap))

\* deleteSessionScript
DeleteSession(t) ==
    /\ Live(t)
    /\ session' = [session EXCEPT ![t] = None]
    /\ index' = [index EXCEPT ![session[t].user] = @ \ {t}]
    /\ UNCHANGED <<generation, permVersion, owner>>

\* Mutant: the generation moves on, the sessions stay.
RevokeSessionsKeepingKeys(us) ==
    /\ generation' = [u \in Users |-> IF u \in us THEN generation[u] + 1 ELSE generation[u]]
    /\ index' = [u \in Users |-> IF u \in us THEN {} ELSE index[u]]
    /\ UNCHANGED <<session, permVersion, owner>>

\* revokeSessionsLua, for each user of one pipeline.
RevokeSessions(us) ==
    /\ generation' = [u \in Users |-> IF u \in us THEN generation[u] + 1 ELSE generation[u]]
    /\ session' = [t \in Tokens |->
                     IF \E u \in us : t \in index[u] THEN None ELSE session[t]]
    /\ index' = [u \in Users |-> IF u \in us THEN {} ELSE index[u]]
    /\ UNCHANGED <<permVersion, owner>>

\* advancePermissionVersionScript, for each user of one pipeline.
AdvancePermissionVersion(us) ==
    /\ permVersion' = [u \in Users |-> IF u \in us THEN permVersion[u] + 1 ELSE permVersion[u]]
    /\ UNCHANGED <<session, index, generation, owner>>

\* The SREM of indexedLoginUsers: index members whose session is gone.
CleanIndex(us) ==
    /\ index' = [u \in Users |-> IF u \in us THEN {t \in index[u] : Live(t)} ELSE index[u]]
    /\ UNCHANGED <<session, generation, permVersion, owner>>

-----------------------------------------------------------------------------
(* Expiry.  Every script that stores a session gives the index and the     *)
(* generation key the same TTL as the session, so both outlive every       *)
(* session of the user.                                                    *)

ExpireSession(t) ==
    /\ Live(t)
    /\ session' = [session EXCEPT ![t] = None]
    /\ UNCHANGED <<index, generation, permVersion, owner>>

ExpireIndex(u) ==
    /\ LiveOf(u) = {}
    /\ index' = [index EXCEPT ![u] = {}]
    /\ UNCHANGED <<session, generation, permVersion, owner>>

ExpireGeneration(u) ==
    /\ LiveOf(u) = {}
    /\ generation' = [generation EXCEPT ![u] = 0]
    /\ UNCHANGED <<session, index, permVersion, owner>>

-----------------------------------------------------------------------------
(* What Redis goes through under any number of callers, whatever copies of *)
(* a session they hold: the revision test lets a script that stores a      *)
(* session start from the stored one only.                                 *)

StoreNext ==
    \/ \E t \in Tokens : session'[t] \in Session /\ CreateSession(t, session'[t])
    \/ \E t \in Tokens : Live(t) /\ RenewSession(t, session[t])
    \/ \E t \in Tokens :
         /\ Live(t)
         /\ session'[t] \in Session
         /\ UpdateSessionPermissions(t, session[t], session'[t].version, session'[t].snap)
    \/ \E t \in Tokens : DeleteSession(t) \/ ExpireSession(t)
    \/ \E us \in SUBSET Users :
         RevokeSessions(us) \/ AdvancePermissionVersion(us) \/ CleanIndex(us)
    \/ \E u \in Users : ExpireIndex(u) \/ ExpireGeneration(u)

StoreSpec == StoreInit /\ [][StoreNext]_storeVars

-----------------------------------------------------------------------------
\* A session belongs to the user its uuid was drawn for and is reachable from
\* that user's reverse index only: refresh and revocation, which never SCAN,
\* miss no session and touch nobody else's (token.go, indexedLoginUsers and
\* revokeSessionsLua).
SessionsIndexed ==
    /\ \A t \in Tokens : Live(t) => /\ session[t].user = owner[t]
                                    /\ t \in index[owner[t]]
    /\ \A u \in Users : \A t \in index[u] : owner[t] = u

\* No session of an earlier generation is stored: a revocation deletes every
\* session of the user, and no script writes one back.
SessionsCurrent ==
    \A t \in Tokens : Live(t) => session[t].generation = generation[session[t].user]

\* A token that was logged out, kicked, revoked or has expired never names a
\* session again, whatever copy of it a request in flight still holds.
NoResurrection ==
    [][\A t \in Tokens : owner[t] # None /\ ~ Live(t) => ~ Live(t)']_storeVars

\* A session's permission version and revision never go back: a renewal that
\* holds an old copy cannot undo a permission refresh.
RefreshNotUndone ==
    [][\A t \in Tokens : Live(t) /\ Live(t)' =>
         /\ session'[t].revision >= session[t].revision
         /\ session'[t].snap # session[t].snap => session'[t].revision > session[t].revision]_storeVars

=============================================================================
