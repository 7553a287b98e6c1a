---------------------------- MODULE RelationWrites ----------------------------
(***************************************************************************)
(* The writers of users, roles, posts, departments, menus and of the rows  *)
(* that relate them (internal/service/user.go, role.go, menu.go, post.go,  *)
(* dept.go, register.go, user_import.go), under the domain locks of        *)
(* write_locks.go.  A writer takes its locks one by one, checks that what  *)
(* it refers to exists and that nothing refers to what it deletes, reads   *)
(* which users its change affects, and writes.                             *)
(*                                                                         *)
(* Every row has its own identity; refers holds the pairs <<a, b>> where   *)
(* the row a, or a row of a relation table, points at b: user -> role,     *)
(* post, department; role -> menu, department; menu -> its parent.  What   *)
(* menu m permits is the number of changes revision[m] of its perms or     *)
(* status.  The department tree, names and passwords are left out.         *)
(*                                                                         *)
(* A permission change (mutatePermissionState) is one step here: its       *)
(* commit and the refresh of the sessions of the affected users happen     *)
(* under permissionRefreshMu.  PermissionRefresh is about what that hides. *)
(***************************************************************************)
EXTENDS Naturals, Sequences, FiniteSets

CONSTANTS
    Users, Roles, Menus, Posts, Depts,
    Writers,
    None,
    Beginnings,  \* sets of rows, one of which is there at the start
    MaxWrites    \* bound: writers that start

Ids == Users \cup Roles \cup Menus \cup Posts \cup Depts
Locks == {"user", "role", "post", "dept", "menu"}

\* The rows a domain lock guards.
Kind(l) ==
    CASE l = "user" -> Users [] l = "role" -> Roles [] l = "post" -> Posts
      [] l = "dept" -> Depts [] l = "menu" -> Menus

ASSUME KindsAssumption ==
    /\ Beginnings \subseteq SUBSET Ids
    /\ \A k, l \in Locks : k # l => Kind(k) \cap Kind(l) = {}
    /\ None \notin Writers \cup Ids
    /\ IsFiniteSet(Menus)

VARIABLES
    rows,       \* id -> "unborn", "live" or "deleted"
    enabled,    \* the roles whose status is normal
    refers,     \* who points at whom
    revision,   \* menu -> permission changes
    session,    \* user -> what its sessions permit, or None
    lock,       \* domain lock -> its holder
    writer,     \* the writers' local state
    writes,     \* writers started
    unlisted,   \* users a menu change gave other permissions without listing them (history)
    ofDeletedRole  \* links that were written of a role deleted before (history)

database == <<rows, enabled, refers, ofDeletedRole, revision>>
vars == <<rows, enabled, refers, ofDeletedRole, revision, session, lock, writer, writes, unlisted>>

Creating == {"CreateUser", "Register", "CreateRole", "CreateMenu", "CreatePost", "CreateDept"}
Deleting == {"DeleteUsers", "DeleteRoles", "DeleteMenu", "DeletePosts", "DeleteDept"}
\* The operations that replace what the row refers to.
Replacing == {"UpdateUser", "ImportUser", "AssignUserRoles", "UpdateRole", "AuthDataScope", "UpdateMenu"}
Operations == Creating \cup Deleting \cup Replacing \cup
    {"ChangeUserStatus", "ChangeRoleStatus", "GrantAuthUser", "CancelAuthUser"}

\* What a writer was asked for: the row, what it refers to (or the rows to
\* delete), and the status, or that the change touches permissions.
Request == [op: Operations, id: Ids \cup {None}, to: SUBSET Ids, flag: BOOLEAN]
NoWriter == [pc |-> "idle", request |-> None, locks |-> <<>>, affected |-> {}]
Writer == [pc: {"lock", "write"}, request: Request, locks: Seq(Locks), affected: SUBSET Users]

TypeOK ==
    /\ rows \in [Ids -> {"unborn", "live", "deleted"}]
    /\ enabled \subseteq Roles
    /\ refers \subseteq Ids \X Ids
    /\ revision \in [Menus -> Nat]
    /\ session \in [Users -> (SUBSET (Menus \X Nat)) \cup {None}]
    /\ lock \in [Locks -> Writers \cup {None}]
    /\ writer \in [Writers -> Writer \cup {NoWriter}]
    /\ \A l \in Locks : lock[l] # None => writer[lock[l]] # NoWriter
    /\ writes \in Nat
    /\ unlisted \subseteq Users
    /\ ofDeletedRole \subseteq refers

Pointing(ids) == {pair[1] : pair \in {p \in refers : p[2] \in ids}}
Targets(id, links) == {pair[2] : pair \in {p \in links : p[1] = id}}

\* The rows of the ids that are not deleted, and the check that these are all.
SelectExisting(ids) == {id \in ids : rows[id] = "live"}
ensureAllIDs(requested, found) == requested \subseteq found
checkIDs(ids) == ensureAllIDs(ids, SelectExisting(ids))

UserLinks == Roles \cup Posts \cup Depts
Parents(menus) == UNION {Targets(m, refers) \cap Menus : m \in menus}
Above(menus) ==
    LET climb[n \in 0..Cardinality(Menus)] ==
            IF n = 0 THEN menus ELSE climb[n - 1] \cup Parents(climb[n - 1])
    IN climb[Cardinality(Menus)]

-----------------------------------------------------------------------------
(* What a user has and may do.  The menus are those that are in use.       *)

\* The roles of a user that are not deleted, the disabled ones included.
SelectRolesByUserID(u) == SelectExisting(Roles \cap Targets(u, refers))

\* The same from a page of users: their relation rows joined with the roles.
SelectUsersByIDs(us) ==
    LET relations == {link \in refers : link[1] \in us /\ link[2] \in Roles}
    IN [u \in SelectExisting(us) |->
          {link[2] : link \in {l \in relations : l[1] = u /\ rows[l[2]] = "live"}}]

SelectMenuPermsByRoleIDs(rs) == {<<m, revision[m]>> : m \in Menus \cap UNION {Targets(r, refers) : r \in rs}}

\* Joins the role without a look whether it is deleted.
SelectMenuPermsByUserID(u) ==
    {<<m, revision[m]>> : m \in {menu \in Menus :
        \E r \in enabled : <<u, r>> \in refers /\ <<r, menu>> \in refers}}

SelectMenuPermsByUserIDs(us) ==
    UNION {{<<link[1], p>> : p \in SelectMenuPermsByRoleIDs({link[2]})} :
               link \in {l \in refers : l[1] \in us /\ l[2] \in enabled}}

\* What a login gives.
GetMenuPermission(u) ==
    LET roles == SelectRolesByUserID(u)
    IN IF roles = {} THEN SelectMenuPermsByUserID(u) ELSE SelectMenuPermsByRoleIDs(roles \cap enabled)

\* What a refresh gives the sessions of users that are not deleted.
loadPermissionSnapshots(us) ==
    LET users == SelectUsersByIDs(us)
        without == {u \in DOMAIN users : users[u] = {}}
    IN [u \in DOMAIN users |->
          IF u \in without THEN {row[2] : row \in {r \in SelectMenuPermsByUserIDs(without) : r[1] = u}}
          ELSE SelectMenuPermsByRoleIDs(users[u] \cap enabled)]

\* What is there is enabled, and its relations are those of earlier writes.
Init ==
    /\ \E born \in Beginnings :
         /\ rows = [id \in Ids |-> IF id \in born THEN "live" ELSE "unborn"]
         /\ enabled = Roles \cap born
         /\ refers \in SUBSET ((born \X born) \cap
              ((Users \X UserLinks) \cup (Roles \X Menus) \cup (Menus \X Menus)))
    /\ \A m \in Menus : Cardinality(Targets(m, refers)) <= 1 /\ m \notin Above(Parents({m}))
    /\ revision = [m \in Menus |-> 0]
    /\ session = [u \in Users |-> IF rows[u] = "live" THEN GetMenuPermission(u) ELSE None]
    /\ lock = [l \in Locks |-> None]
    /\ writer = [w \in Writers |-> NoWriter]
    /\ writes = 0
    /\ unlisted = {}
    /\ ofDeletedRole = {}

-----------------------------------------------------------------------------
(* The operations: which locks they take, and in which order.              *)

\* A request names rows its sender has seen, which may be gone by now.
Start(w, op, id, to, flag, locks) ==
    /\ writer[w] = NoWriter
    /\ writes < MaxWrites
    /\ op \in Creating => rows[id] = "unborn"
    /\ op \notin Creating \cup Deleting \cup {"ImportUser"} => rows[id] # "unborn"
    /\ \A other \in to : rows[other] # "unborn"
    /\ writes' = writes + 1
    /\ writer' = [writer EXCEPT ![w] =
         [pc |-> "lock", request |-> [op |-> op, id |-> id, to |-> to, flag |-> flag],
          locks |-> locks, affected |-> {}]]
    /\ UNCHANGED <<database, session, lock, unlisted>>

CreateUser(w) ==
    \E u \in Users, to \in SUBSET UserLinks :
        Start(w, "CreateUser", u, to, TRUE, <<"user", "role", "post", "dept">>)

\* Mutant: the posts are not locked.
UpdateUserWithoutPosts(w) ==
    \E u \in Users, to \in SUBSET UserLinks, normal \in BOOLEAN :
        Start(w, "UpdateUser", u, to, normal, <<"user", "role", "dept">>)

UpdateUser(w) ==
    \E u \in Users, to \in SUBSET UserLinks, normal \in BOOLEAN :
        Start(w, "UpdateUser", u, to, normal, <<"user", "role", "post", "dept">>)

Register(w) == \E u \in Users : Start(w, "Register", u, {}, TRUE, <<"user">>)

\* One row of the file; the others follow under the same locks.
ImportUser(w) ==
    \E u \in Users, to \in SUBSET Depts, normal \in BOOLEAN :
        Start(w, "ImportUser", u, to, normal, <<"user", "dept">>)

ChangeUserStatus(w) ==
    \E u \in Users, normal \in BOOLEAN :
        Start(w, "ChangeUserStatus", u, {}, normal, <<"user">>)

DeleteUsers(w) == \E us \in (SUBSET Users) \ {{}} : Start(w, "DeleteUsers", None, us, TRUE, <<"user">>)

\* Mutant: the roles are not locked.
AssignUserRolesUnlocked(w) ==
    \E u \in Users, rs \in SUBSET Roles : Start(w, "AssignUserRoles", u, rs, TRUE, <<"user">>)

AssignUserRoles(w) ==
    \E u \in Users, rs \in SUBSET Roles :
        Start(w, "AssignUserRoles", u, rs, TRUE, <<"user", "role">>)

\* The role comes from a page that may be stale.
GrantAuthUser(w) ==
    \E r \in Roles : \E us \in (SUBSET Users) \ {{}} :
        Start(w, "GrantAuthUser", r, us, TRUE, <<"user", "role">>)

CancelAuthUser(w) ==
    \E r \in Roles : \E us \in (SUBSET Users) \ {{}} :
        Start(w, "CancelAuthUser", r, us, TRUE, <<"user", "role">>)

CreateRole(w) ==
    \E r \in Roles, ms \in SUBSET Menus, normal \in BOOLEAN :
        Start(w, "CreateRole", r, ms, normal, <<"role", "menu">>)

UpdateRole(w) ==
    \E r \in Roles, ms \in SUBSET Menus, normal \in BOOLEAN :
        Start(w, "UpdateRole", r, ms, normal, <<"role", "menu">>)

ChangeRoleStatus(w) ==
    \E r \in Roles, normal \in BOOLEAN :
        Start(w, "ChangeRoleStatus", r, {}, normal, <<"role">>)

\* Mutant: the departments are locked before the roles.
AuthDataScopeReversed(w) ==
    \E r \in Roles, ds \in SUBSET Depts :
        Start(w, "AuthDataScope", r, ds, TRUE, <<"dept", "role">>)

AuthDataScope(w) ==
    \E r \in Roles, ds \in SUBSET Depts :
        Start(w, "AuthDataScope", r, ds, TRUE, <<"role", "dept">>)

DeleteRoles(w) == \E rs \in (SUBSET Roles) \ {{}} : Start(w, "DeleteRoles", None, rs, TRUE, <<"role">>)

ParentChoices == {{}} \cup {{m} : m \in Menus}
CreateMenu(w) ==
    \E m \in Menus, parent \in ParentChoices :
        Start(w, "CreateMenu", m, parent, TRUE, <<"menu">>)

UpdateMenu(w) ==
    \E m \in Menus, parent \in ParentChoices, permissionChanged \in BOOLEAN :
        Start(w, "UpdateMenu", m, parent, permissionChanged, <<"menu">>)

DeleteMenu(w) == \E m \in Menus : Start(w, "DeleteMenu", None, {m}, TRUE, <<"menu">>)

CreatePost(w) == \E p \in Posts : Start(w, "CreatePost", p, {}, TRUE, <<"post">>)
DeletePosts(w) == \E ps \in (SUBSET Posts) \ {{}} : Start(w, "DeletePosts", None, ps, TRUE, <<"post">>)

CreateDept(w) == \E d \in Depts : Start(w, "CreateDept", d, {}, TRUE, <<"dept">>)
DeleteDept(w) == \E d \in Depts : Start(w, "DeleteDept", None, {d}, TRUE, <<"dept">>)

-----------------------------------------------------------------------------
(* Taking the locks, checking, writing.                                    *)

Acquire(w) ==
    /\ writer[w].pc = "lock"
    /\ writer[w].locks # <<>>
    /\ lock[Head(writer[w].locks)] = None
    /\ lock' = [lock EXCEPT ![Head(writer[w].locks)] = w]
    /\ writer' = [writer EXCEPT ![w].locks = Tail(@)]
    /\ UNCHANGED <<database, session, writes, unlisted>>

\* menuParentCreatesCycle: climbing from the new parent meets the menu, or a
\* menu for the second time.
CreatesCycle(m, parent) ==
    \/ m \in Above(parent)
    \/ \E other \in Above(parent) : other \in Above(Parents({other}))

\* The users that have a role or a post that is to be deleted.
SelectForDelete(ids) == Pointing(ids) \cap Users
CheckMenuExistRole(m) == Pointing({m}) \cap Roles # {}
HasChildByMenuID(m) == Pointing({m}) \cap Menus # {}

\* What must exist, and what must not be referred to.  A row that is only
\* updated by its identity need not be live: ChangeUserStatus,
\* ChangeRoleStatus, and for an administrator the role of GrantAuthUser,
\* CancelAuthUser and AuthDataScope.
Permitted(q) ==
    /\ q.op \in Creating => rows[q.id] = "unborn"
    /\ q.op \in {"UpdateUser", "AssignUserRoles", "UpdateRole", "UpdateMenu"} => checkIDs({q.id})
    /\ q.op = "ImportUser" => rows[q.id] # "deleted"
    /\ q.op \notin {"DeletePosts", "DeleteDept"} => checkIDs(q.to)
    /\ q.op \in {"DeleteRoles", "DeletePosts"} => SelectForDelete(q.to) = {}
    /\ q.op = "DeleteDept" => SelectExisting(Pointing(q.to) \cap Users) = {}
    /\ q.op = "DeleteMenu" => \A m \in q.to : ~CheckMenuExistRole(m) /\ ~HasChildByMenuID(m)
    /\ q.op = "UpdateMenu" => ~CreatesCycle(q.id, q.to)

SelectUserIDsByRoleID(r) == SelectExisting(Users \cap Pointing({r}))
SelectUserIDsByMenuID(m) == Users \cap Pointing(Roles \cap Pointing({m}))

\* The users whose sessions the change refreshes.
Affected(q) ==
    {u \in Users :
        \/ q.op \in {"UpdateUser", "ImportUser"} /\ q.flag /\ u = q.id
        \/ q.op = "AssignUserRoles" /\ u = q.id
        \/ q.op \in {"GrantAuthUser", "CancelAuthUser"} /\ u \in q.to
        \/ q.op \in {"UpdateRole", "ChangeRoleStatus", "AuthDataScope"} /\ u \in SelectUserIDsByRoleID(q.id)
        \/ q.op = "UpdateMenu" /\ q.flag /\ u \in SelectUserIDsByMenuID(q.id)}

Validate(w) ==
    /\ writer[w].pc = "lock"
    /\ writer[w].locks = <<>>
    /\ Permitted(writer[w].request)
    /\ writer' = [writer EXCEPT ![w] =
         [@ EXCEPT !.pc = "write", !.affected = Affected(writer[w].request)]]
    /\ UNCHANGED <<database, session, lock, writes, unlisted>>

Release(w) ==
    /\ lock' = [l \in Locks |-> IF lock[l] = w THEN None ELSE lock[l]]
    /\ writer' = [writer EXCEPT ![w] = NoWriter]

\* Mutant: a refusal returns with the locks.
RefuseLocked(w) ==
    /\ \/ writer[w].pc = "lock" /\ writer[w].locks = <<>>
       \/ writer[w].pc = "write"
    /\ writer' = [writer EXCEPT ![w] = NoWriter]
    /\ UNCHANGED <<database, session, lock, writes, unlisted>>

\* A check fails, the operator's data scope does not reach the row, or a query
\* or the write itself fails.
Refuse(w) ==
    /\ \/ writer[w].pc = "lock" /\ writer[w].locks = <<>>
       \/ writer[w].pc = "write"
    /\ Release(w)
    /\ UNCHANGED <<database, session, writes, unlisted>>

(* The rows that relate, after the transaction of each operation.          *)

\* What row id refers to among these ids is deleted and written again.
Rewritten(id, among, to) == {l \in refers : l[1] # id \/ l[2] \notin among} \cup ({id} \X to)
Without(ids, among) == {l \in refers : l[1] \notin ids \/ l[2] \notin among}

InsertUser(q) == refers \cup ({q.id} \X q.to)
UpdateUserRow(q) == Rewritten(q.id, UserLinks, q.to)
UpdateUserBasic(q) == Rewritten(q.id, Depts, q.to)
DeleteUserByIDs(q) == Without(q.to, Roles \cup Posts)
ReplaceUserRoles(q) == Rewritten(q.id, Roles, q.to)
InsertUserRole(q) == refers \cup (q.to \X {q.id})
DeleteUserRole(q) == refers \ (q.to \X {q.id})
InsertRole(q) == refers \cup ({q.id} \X q.to)
UpdateRoleRow(q) == Rewritten(q.id, Menus, q.to)
AuthDataScopeRows(q) == Rewritten(q.id, Depts, q.to)
DeleteRoleByIDs(q) == Without(q.to, Menus \cup Depts)
InsertMenu(q) == refers \cup ({q.id} \X q.to)
UpdateMenuRow(q) == Rewritten(q.id, Menus, q.to)
DeleteMenuByID(q) == Without(q.to, Menus)

LinksAfter(q) ==
    CASE q.op = "CreateUser" -> InsertUser(q)
      [] q.op = "UpdateUser" -> UpdateUserRow(q)
      [] q.op = "ImportUser" -> UpdateUserBasic(q)
      [] q.op = "DeleteUsers" -> DeleteUserByIDs(q)
      [] q.op = "AssignUserRoles" -> ReplaceUserRoles(q)
      [] q.op = "GrantAuthUser" -> InsertUserRole(q)
      [] q.op = "CancelAuthUser" -> DeleteUserRole(q)
      [] q.op = "CreateRole" -> InsertRole(q)
      [] q.op = "UpdateRole" -> UpdateRoleRow(q)
      [] q.op = "AuthDataScope" -> AuthDataScopeRows(q)
      [] q.op = "DeleteRoles" -> DeleteRoleByIDs(q)
      [] q.op = "CreateMenu" -> InsertMenu(q)
      [] q.op = "UpdateMenu" -> UpdateMenuRow(q)
      [] q.op = "DeleteMenu" -> DeleteMenuByID(q)
      [] OTHER -> refers

\* The links a write adds although nobody looked whether the role is there: for
\* an administrator, CheckRoleDataScope returns at once.
LinksUnlooked(q) ==
    IF q.op = "GrantAuthUser" /\ rows[q.id] # "live" THEN q.to \X {q.id}
    ELSE IF q.op = "AuthDataScope" /\ rows[q.id] # "live" THEN {q.id} \X q.to ELSE {}

\* The users whose sessions are revoked before the write.
Revoked(q) ==
    IF q.op = "DeleteUsers" THEN q.to
    ELSE IF q.op \in {"UpdateUser", "ImportUser", "ChangeUserStatus"} /\ ~q.flag THEN {q.id} ELSE {}

StatusAfter(q) ==
    IF q.op \notin {"CreateRole", "UpdateRole", "ChangeRoleStatus"} THEN enabled
    ELSE IF q.flag THEN enabled \cup {q.id} ELSE enabled \ {q.id}

\* The write, and with a permission change the refresh of the affected users.
Write(w) ==
    LET q == writer[w].request
    IN  /\ writer[w].pc = "write"
        /\ rows' = [id \in Ids |->
             IF q.op \in Creating \cup {"ImportUser"} /\ id = q.id THEN "live"
             ELSE IF q.op \in Deleting /\ id \in q.to THEN "deleted" ELSE rows[id]]
        /\ refers' = LinksAfter(q)
        /\ ofDeletedRole' = (ofDeletedRole \cup LinksUnlooked(q)) \cap refers'
        /\ enabled' = StatusAfter(q)
        /\ revision' = IF q.op = "UpdateMenu" /\ q.flag THEN [revision EXCEPT ![q.id] = @ + 1] ELSE revision
        /\ LET snapshots == loadPermissionSnapshots(Users)'
           IN session' = [u \in Users |->
                IF session[u] = None \/ u \in Revoked(q) THEN None
                ELSE IF u \notin writer[w].affected THEN session[u]
                ELSE IF u \in DOMAIN snapshots THEN snapshots[u] ELSE None]
        /\ unlisted' = (unlisted \ writer[w].affected) \cup
             {u \in Users \ writer[w].affected :
                 q.op = "UpdateMenu" /\ q.flag /\ u \in Pointing(Pointing({q.id}))}
        /\ Release(w)
        /\ UNCHANGED writes

-----------------------------------------------------------------------------
(* What the pages of a user and of a role show.                            *)

\* Each user that is not deleted, joined with its roles or with none.
UserRoleRows ==
    UNION {LET has == Roles \cap Targets(u, refers) IN {u} \X (IF has = {} THEN {None} ELSE has) :
               u \in SelectExisting(Users)}

\* Mutant: a comparison with nothing is not true.
AuthUserWithoutNulls(r, allocated) ==
    {row[1] : row \in {x \in UserRoleRows :
        IF allocated THEN x[2] = r ELSE x[2] \notin {r, None} /\ <<x[1], r>> \notin refers}}

authUserDB(r, allocated) ==
    {row[1] : row \in {x \in UserRoleRows :
        IF allocated THEN x[2] = r ELSE x[2] # r /\ <<x[1], r>> \notin refers}}

\* The roles that can be given, each with whether the user has it.
AuthRoleOfUser(u) == {<<r, r \in SelectRolesByUserID(u)>> : r \in SelectExisting(Roles)}

-----------------------------------------------------------------------------
Begin(w) ==
    \/ CreateUser(w) \/ UpdateUser(w) \/ Register(w) \/ ImportUser(w)
    \/ ChangeUserStatus(w) \/ DeleteUsers(w)
    \/ AssignUserRoles(w) \/ GrantAuthUser(w) \/ CancelAuthUser(w)
    \/ CreateRole(w) \/ UpdateRole(w) \/ ChangeRoleStatus(w) \/ AuthDataScope(w) \/ DeleteRoles(w)
    \/ CreateMenu(w) \/ UpdateMenu(w) \/ DeleteMenu(w)
    \/ CreatePost(w) \/ DeletePosts(w) \/ CreateDept(w) \/ DeleteDept(w)

Next == \E w \in Writers : Begin(w) \/ Acquire(w) \/ Validate(w) \/ Refuse(w) \/ Write(w)

Spec == Init /\ [][Next]_vars

-----------------------------------------------------------------------------
(* Properties.                                                             *)

\* A row is referred to only while it is there, and a deleted row refers to
\* nothing, whatever is deleted between the check of a reference and its write
\* (CONVENTIONS.md:871-873, DECISIONS.md:1655).  Excepted are the links to and
\* from a role that had been deleted when an administrator's GrantAuthUser or
\* AuthDataScope wrote them, the department in the row of a deleted user, and a
\* deleted department in the data scope of a role, where DeleteDept does not look.
ReferencesLive ==
    \A link \in refers :
        \/ rows[link[1]] = "live" /\ rows[link[2]] = "live"
        \/ link \in ofDeletedRole /\ link[1] \in Users /\ link[2] \in Roles /\ rows[link[1]] = "live"
        \/ link \in ofDeletedRole /\ link[1] \in Roles /\ link[2] \in Depts
        \/ link[1] \in Users /\ link[2] \in Depts /\ rows[link[1]] = "deleted"
        \/ link[1] \in Roles /\ link[2] \in Depts /\ rows[link[1]] = "live" /\ rows[link[2]] = "deleted"

\* The menus are a forest: no menu is above itself, however moves interleave.
MenusAreForest == \A m \in Menus : m \notin Above(Parents({m}))

\* A permission change refreshes every session whose permissions it changes
\* (CONVENTIONS.md:413): no session permits anything but what the tables say.
SessionsMatchTables ==
    \A u \in Users : session[u] \in {None, GetMenuPermission(u)}

\* The only sessions that may be out of date are those of users that were
\* given a role of the menu between UpdateMenu's look at its users and its commit.
StaleOnlyUnlisted ==
    \A u \in Users \ unlisted : session[u] \in {None, GetMenuPermission(u)}

TablesSound == ReferencesLive /\ MenusAreForest

\* The same rows read in different ways agree.  The users a role's page shows
\* as having it and as not having it are all users, each once
\* (internal/repository/user.go:347); the roles a user's page marks, sent
\* back unchanged, are those the user has; a login and a refresh of a session
\* find the same permissions, and none of a role that is deleted.
PagesAgree ==
    /\ \A r \in Roles :
         /\ authUserDB(r, TRUE) \cup authUserDB(r, FALSE) = SelectExisting(Users)
         /\ authUserDB(r, TRUE) \cap authUserDB(r, FALSE) = {}
    /\ \A u \in SelectExisting(Users) :
         /\ {row[1] : row \in {x \in AuthRoleOfUser(u) : x[2]}} = SelectRolesByUserID(u)
         /\ loadPermissionSnapshots(Users)[u] = GetMenuPermission(u)
         /\ GetMenuPermission(u) \subseteq SelectMenuPermsByRoleIDs(SelectRolesByUserID(u))

\* The writers never all wait for each other's locks.
SomebodyMoves ==
    (\E w \in Writers : writer[w] # NoWriter) =>
        \E w \in Writers :
            \/ writer[w].pc = "write"
            \/ /\ writer[w].pc = "lock"
               /\ writer[w].locks # <<>> => lock[Head(writer[w].locks)] = None

=============================================================================
