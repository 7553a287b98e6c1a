------------------------- MODULE RelationWritesProofs -------------------------
(***************************************************************************)
(* For any number of users, roles, menus, posts, departments and writers:  *)
(* the writers never all wait for each other's locks (SomebodyMoves),      *)
(* nothing that is referred to goes away but as ReferencesLive excepts,    *)
(* what is read of one relation agrees (PagesAgree), and only a session in *)
(* UpdateMenu's window permits anything but what the tables say            *)
(* (StaleOnlyUnlisted).                                                    *)
(***************************************************************************)
EXTENDS RelationWrites, DataInduction

\* The order in which every operation takes its locks.
Rank == [user |-> 1, role |-> 2, post |-> 3, dept |-> 4, menu |-> 5]

Among(s) == {s[i] : i \in DOMAIN s}
Ascending(s) ==
    /\ s \in Seq(Locks)
    /\ \A i, k \in DOMAIN s : i < k => Rank[s[i]] < Rank[s[k]]

\* The locks an operation takes.
Takes(op) ==
    CASE op \in {"CreateUser", "UpdateUser"} -> {"user", "role", "post", "dept"}
      [] op \in {"Register", "ChangeUserStatus", "DeleteUsers"} -> {"user"}
      [] op = "ImportUser" -> {"user", "dept"}
      [] op \in {"AssignUserRoles", "GrantAuthUser", "CancelAuthUser"} -> {"user", "role"}
      [] op \in {"CreateRole", "UpdateRole"} -> {"role", "menu"}
      [] op = "AuthDataScope" -> {"role", "dept"}
      [] op \in {"ChangeRoleStatus", "DeleteRoles"} -> {"role"}
      [] op \in {"CreateMenu", "UpdateMenu", "DeleteMenu"} -> {"menu"}
      [] op \in {"CreatePost", "DeletePosts"} -> {"post"}
      [] op \in {"CreateDept", "DeleteDept"} -> {"dept"}

\* What each operation is asked for.
Shaped(q) ==
    /\ q \in Request
    /\ q.op \in {"CreateUser", "UpdateUser"} => q.id \in Users /\ q.to \subseteq UserLinks
    /\ q.op \in {"Register", "ChangeUserStatus"} => q.id \in Users /\ q.to = {}
    /\ q.op = "ImportUser" => q.id \in Users /\ q.to \subseteq Depts
    /\ q.op = "DeleteUsers" => q.to \subseteq Users
    /\ q.op = "AssignUserRoles" => q.id \in Users /\ q.to \subseteq Roles
    /\ q.op \in {"GrantAuthUser", "CancelAuthUser"} => q.id \in Roles /\ q.to \subseteq Users
    /\ q.op \in {"CreateRole", "UpdateRole"} => q.id \in Roles /\ q.to \subseteq Menus
    /\ q.op = "ChangeRoleStatus" => q.id \in Roles /\ q.to = {}
    /\ q.op = "AuthDataScope" => q.id \in Roles /\ q.to \subseteq Depts
    /\ q.op = "DeleteRoles" => q.to \subseteq Roles
    /\ q.op \in {"CreateMenu", "UpdateMenu"} => q.id \in Menus /\ q.to \subseteq Menus
    /\ q.op = "DeleteMenu" => q.to \subseteq Menus
    /\ q.op = "CreatePost" => q.id \in Posts /\ q.to = {}
    /\ q.op = "DeletePosts" => q.to \subseteq Posts
    /\ q.op = "CreateDept" => q.id \in Depts /\ q.to = {}
    /\ q.op = "DeleteDept" => q.to \subseteq Depts

\* A writer holds what its operation takes, but for the locks it has yet to
\* take, and these come after those.
InOrder(w) ==
    /\ Shaped(writer[w].request)
    /\ Ascending(writer[w].locks)
    /\ Among(writer[w].locks) \subseteq Takes(writer[w].request.op)
    /\ \A l \in Takes(writer[w].request.op) \ Among(writer[w].locks) :
         \A k \in Among(writer[w].locks) : Rank[l] < Rank[k]
    /\ writer[w].pc = "write" => writer[w].locks = <<>>

LockInv ==
    /\ lock \in [Locks -> Writers \cup {None}]
    /\ writer \in [Writers -> Writer \cup {NoWriter}]
    /\ \A w \in Writers : writer[w] # NoWriter => InOrder(w)
    /\ \A w \in Writers, l \in Locks :
         lock[l] = w <=> /\ writer[w] # NoWriter
                         /\ l \in Takes(writer[w].request.op) \ Among(writer[w].locks)

-----------------------------------------------------------------------------
LEMMA Ranks ==
    /\ \A l \in Locks : Rank[l] \in 1..5
    /\ \A op \in Operations : Takes(op) \subseteq Locks
  BY DEF Locks, Rank, Operations, Creating, Deleting, Replacing, Takes

\* Every plan of locks is in order.
LEMMA Plans ==
    /\ \A l \in Locks : Ascending(<<l>>) /\ Among(<<l>>) = {l}
    /\ \A k, l \in Locks : Rank[k] < Rank[l] => Ascending(<<k, l>>) /\ Among(<<k, l>>) = {k, l}
    /\ Ascending(<<"user", "role", "post", "dept">>)
    /\ Among(<<"user", "role", "post", "dept">>) = {"user", "role", "post", "dept"}
<1>1. \A l \in Locks : Ascending(<<l>>) /\ Among(<<l>>) = {l}
  BY DEF Ascending, Among
<1>2. \A k, l \in Locks : Rank[k] < Rank[l] => Ascending(<<k, l>>) /\ Among(<<k, l>>) = {k, l}
  BY Ranks DEF Ascending, Among
<1>3. Ascending(<<"user", "role", "post", "dept">>)
  BY DEF Ascending, Locks, Rank
<1>4. Among(<<"user", "role", "post", "dept">>) = {"user", "role", "post", "dept"}
  BY DEF Among
<1> QED
  BY <1>1, <1>2, <1>3, <1>4

\* What is left of a plan when its first lock is taken.
LEMMA Rest ==
    ASSUME NEW s, Ascending(s), s # <<>>
    PROVE  /\ Head(s) \in Locks
           /\ Ascending(Tail(s))
           /\ Head(s) \notin Among(Tail(s))
           /\ Among(s) = Among(Tail(s)) \cup {Head(s)}
           /\ \A k \in Among(Tail(s)) : Rank[Head(s)] < Rank[k]
<1>1. s \in Seq(Locks) /\ Len(s) \in Nat \ {0} /\ DOMAIN s = 1..Len(s) /\ Head(s) = s[1]
  BY DEF Ascending
<1>2. /\ Tail(s) \in Seq(Locks)
      /\ DOMAIN Tail(s) = 1..(Len(s) - 1)
      /\ \A i \in 1..(Len(s) - 1) : Tail(s)[i] = s[i + 1]
  BY <1>1
<1>3. Head(s) \in Locks
  BY <1>1
<1>4. Ascending(Tail(s))
  BY <1>1, <1>2 DEF Ascending
<1>5. \A k \in Among(Tail(s)) : Rank[Head(s)] < Rank[k]
  BY <1>1, <1>2 DEF Ascending, Among
<1>6. Head(s) \notin Among(Tail(s))
  BY <1>3, <1>5, Ranks
<1>7. Among(s) = Among(Tail(s)) \cup {Head(s)}
  <2>1. \A i \in 1..Len(s) : i = 1 \/ i - 1 \in 1..(Len(s) - 1)
    BY <1>1
  <2>2. \A i \in 1..(Len(s) - 1) : i + 1 \in 1..Len(s) /\ i + 1 - 1 = i
    BY <1>1
  <2>3. ASSUME NEW i \in DOMAIN s PROVE s[i] \in Among(Tail(s)) \cup {Head(s)}
    <3>1. CASE i = 1
      BY <1>1, <3>1
    <3>2. CASE i - 1 \in 1..(Len(s) - 1)
      BY <1>1, <1>2, <3>2 DEF Among
    <3> QED
      BY <1>1, <2>1, <3>1, <3>2
  <2>4. ASSUME NEW i \in DOMAIN Tail(s) PROVE Tail(s)[i] \in Among(s)
    BY <1>1, <1>2, <2>2 DEF Among
  <2>5. Head(s) \in Among(s)
    BY <1>1 DEF Among
  <2> QED
    BY <2>3, <2>4, <2>5 DEF Among
<1> QED
  BY <1>3, <1>4, <1>5, <1>6, <1>7

LEMMA Markers == /\ NoWriter \notin Writer /\ NoWriter.pc = "idle" /\ NoWriter.locks = <<>>
                 /\ None \notin Writers
  BY KindsAssumption DEF NoWriter, Writer

\* A writer that starts knows what it wants and which locks that takes.
BeginShape(w) ==
    \E q \in Request, locks \in Seq(Locks) :
        /\ Start(w, q.op, q.id, q.to, q.flag, locks)
        /\ q = [op |-> q.op, id |-> q.id, to |-> q.to, flag |-> q.flag]
        /\ Shaped(q)
        /\ Ascending(locks)
        /\ Among(locks) = Takes(q.op)

LEMMA StartShape ==
    ASSUME NEW w \in Writers, NEW op \in Operations, NEW id \in Ids \cup {None}, NEW to \in SUBSET Ids,
           NEW flag \in BOOLEAN, NEW locks, Start(w, op, id, to, flag, locks),
           Shaped([op |-> op, id |-> id, to |-> to, flag |-> flag]),
           Ascending(locks), Among(locks) = Takes(op)
    PROVE  BeginShape(w)
<1> DEFINE q == [op |-> op, id |-> id, to |-> to, flag |-> flag]
<1>1. q \in Request /\ q.op = op /\ q.id = id /\ q.to = to /\ q.flag = flag
  BY DEF Request
<1>2. locks \in Seq(Locks)
  BY DEF Ascending
<1> QED
  BY <1>1, <1>2 DEF BeginShape

LEMMA BeginShapes == ASSUME NEW w \in Writers, Begin(w) PROVE BeginShape(w)
<1> USE DEF Ids, UserLinks, Operations, Creating, Deleting, Replacing, Takes
<1> DEFINE four == <<"user", "role", "post", "dept">>
<1>1. /\ Ascending(four) /\ Among(four) = {"user", "role", "post", "dept"}
      /\ \A l \in Locks : Ascending(<<l>>) /\ Among(<<l>>) = {l}
      /\ Ascending(<<"user", "role">>) /\ Among(<<"user", "role">>) = {"user", "role"}
      /\ Ascending(<<"user", "dept">>) /\ Among(<<"user", "dept">>) = {"user", "dept"}
      /\ Ascending(<<"role", "menu">>) /\ Among(<<"role", "menu">>) = {"role", "menu"}
      /\ Ascending(<<"role", "dept">>) /\ Among(<<"role", "dept">>) = {"role", "dept"}
      /\ Locks = {"user", "role", "post", "dept", "menu"}
  BY Plans DEF Locks, Rank
<1>2. ASSUME NEW u \in Users, NEW to \in SUBSET UserLinks, NEW normal \in BOOLEAN,
             NEW op \in {"CreateUser", "UpdateUser"}, Start(w, op, u, to, normal, four)
      PROVE  BeginShape(w)
  BY <1>1, <1>2, StartShape DEF Shaped, Request
<1>3. ASSUME NEW u \in Users, NEW flag \in BOOLEAN, NEW op \in {"Register", "ChangeUserStatus"},
             Start(w, op, u, {}, flag, <<"user">>)
      PROVE  BeginShape(w)
  BY <1>1, <1>3, StartShape DEF Shaped, Request
<1>4. CASE ImportUser(w)
  BY <1>1, <1>4, StartShape DEF ImportUser, Shaped, Request
<1>5. CASE DeleteUsers(w)
  BY <1>1, <1>5, StartShape DEF DeleteUsers, Shaped, Request
<1>6. CASE AssignUserRoles(w)
  BY <1>1, <1>6, StartShape DEF AssignUserRoles, Shaped, Request
<1>7. CASE GrantAuthUser(w) \/ CancelAuthUser(w)
  BY <1>1, <1>7, StartShape DEF GrantAuthUser, CancelAuthUser, Shaped, Request
<1>8. CASE CreateRole(w) \/ UpdateRole(w)
  BY <1>1, <1>8, StartShape DEF CreateRole, UpdateRole, Shaped, Request
<1>9. CASE ChangeRoleStatus(w) \/ DeleteRoles(w)
  <2>1. CASE ChangeRoleStatus(w)
    BY <1>1, <2>1, StartShape DEF ChangeRoleStatus, Shaped, Request
  <2>2. CASE DeleteRoles(w)
    BY <1>1, <2>2, StartShape DEF DeleteRoles, Shaped, Request
  <2> QED
    BY <1>9, <2>1, <2>2
<1>10. CASE AuthDataScope(w)
  BY <1>1, <1>10, StartShape DEF AuthDataScope, Shaped, Request
<1>11. CASE CreateMenu(w) \/ UpdateMenu(w) \/ DeleteMenu(w)
  <2>1. \A parent \in ParentChoices : parent \in SUBSET Menus
    BY DEF ParentChoices
  <2>2. CASE CreateMenu(w)
    BY <1>1, <2>1, <2>2, StartShape DEF CreateMenu, Shaped, Request
  <2>3. CASE UpdateMenu(w)
    BY <1>1, <2>1, <2>3, StartShape DEF UpdateMenu, Shaped, Request
  <2>4. CASE DeleteMenu(w)
    BY <1>1, <2>4, StartShape DEF DeleteMenu, Shaped, Request
  <2> QED
    BY <1>11, <2>2, <2>3, <2>4
<1>12. CASE CreatePost(w) \/ DeletePosts(w)
  <2>1. CASE CreatePost(w)
    BY <1>1, <2>1, StartShape DEF CreatePost, Shaped, Request
  <2>2. CASE DeletePosts(w)
    BY <1>1, <2>2, StartShape DEF DeletePosts, Shaped, Request
  <2> QED
    BY <1>12, <2>1, <2>2
<1>13. CASE CreateDept(w) \/ DeleteDept(w)
  <2>1. CASE CreateDept(w)
    BY <1>1, <2>1, StartShape DEF CreateDept, Shaped, Request
  <2>2. CASE DeleteDept(w)
    BY <1>1, <2>2, StartShape DEF DeleteDept, Shaped, Request
  <2> QED
    BY <1>13, <2>1, <2>2
<1> QED
  BY <1>2, <1>3, <1>4, <1>5, <1>6, <1>7, <1>8, <1>9, <1>10, <1>11, <1>12, <1>13
     DEF Begin, CreateUser, UpdateUser, Register, ChangeUserStatus

-----------------------------------------------------------------------------
(* The locks.                                                              *)

LEMMA LockInit == ASSUME Init PROVE LockInv
  BY Markers, Ranks DEF Init, LockInv

LEMMA LockBegin == ASSUME LockInv, NEW w \in Writers, Begin(w) PROVE LockInv'
<1>1. PICK q \in Request, locks \in Seq(Locks) :
        /\ Start(w, q.op, q.id, q.to, q.flag, locks)
        /\ q = [op |-> q.op, id |-> q.id, to |-> q.to, flag |-> q.flag]
        /\ Shaped(q)
        /\ Ascending(locks)
        /\ Among(locks) = Takes(q.op)
  BY BeginShapes DEF BeginShape
<1> DEFINE new == [pc |-> "lock", request |-> q, locks |-> locks, affected |-> {}]
<1>2. /\ writer' = [writer EXCEPT ![w] = new] /\ writer[w] = NoWriter /\ lock' = lock
      /\ new \in Writer
  BY <1>1 DEF Start, Writer
<1>3. /\ writer' \in [Writers -> Writer \cup {NoWriter}]
      /\ writer'[w] = new /\ new # NoWriter
      /\ \A v \in Writers \ {w} : writer'[v] = writer[v]
  BY <1>2, Markers DEF LockInv
<1>4. InOrder(w)'
  BY <1>1, <1>3 DEF InOrder
<1>5. \A v \in Writers \ {w} : writer[v] # NoWriter => InOrder(v)'
  BY <1>3 DEF InOrder, LockInv
<1>6. \A l \in Locks : lock'[l] # w
  BY <1>2 DEF LockInv
<1>7. \A l \in Locks : l \notin Takes(q.op) \ Among(locks)
  BY <1>1
<1>8. \A v \in Writers, l \in Locks :
         lock'[l] = v <=> /\ writer'[v] # NoWriter
                          /\ l \in Takes(writer'[v].request.op) \ Among(writer'[v].locks)
  BY <1>2, <1>3, <1>6, <1>7 DEF LockInv
<1> QED
  BY <1>2, <1>3, <1>4, <1>5, <1>8 DEF LockInv

LEMMA LockAcquire == ASSUME LockInv, NEW w \in Writers, Acquire(w) PROVE LockInv'
<1> DEFINE s == writer[w].locks
           op == writer[w].request.op
<1>1. writer[w] # NoWriter /\ writer[w] \in Writer /\ InOrder(w) /\ Ascending(s) /\ s # <<>>
  <2>1. writer[w].pc = "lock" /\ s # <<>>
    BY DEF Acquire
  <2>2. writer[w] # NoWriter
    BY <2>1, Markers
  <2> QED
    BY <2>1, <2>2 DEF LockInv, InOrder
<1>2. /\ Head(s) \in Locks /\ Ascending(Tail(s)) /\ Head(s) \notin Among(Tail(s))
      /\ Among(s) = Among(Tail(s)) \cup {Head(s)}
      /\ \A k \in Among(Tail(s)) : Rank[Head(s)] < Rank[k]
  BY <1>1, Rest
<1>3. /\ lock' = [lock EXCEPT ![Head(s)] = w] /\ lock[Head(s)] = None
      /\ writer' = [writer EXCEPT ![w].locks = Tail(s)]
  BY DEF Acquire
<1>4. /\ writer'[w] = [writer[w] EXCEPT !.locks = Tail(s)]
      /\ \A v \in Writers \ {w} : writer'[v] = writer[v]
  BY <1>3 DEF LockInv
<1>5. /\ writer'[w] \in Writer /\ writer'[w].locks = Tail(s)
      /\ writer'[w].request = writer[w].request /\ writer'[w].pc = "lock"
  <2>1. Tail(s) \in Seq(Locks)
    BY <1>2 DEF Ascending
  <2>2. writer[w].pc = "lock"
    BY DEF Acquire
  <2>3. ASSUME NEW new, NEW old \in Writer, new = [old EXCEPT !.locks = Tail(s)], old.pc = "lock"
        PROVE  new \in Writer /\ new.locks = Tail(s) /\ new.request = old.request /\ new.pc = "lock"
    BY <2>1, <2>3 DEF Writer
  <2> QED
    BY <1>1, <1>4, <2>2, <2>3
<1>6. writer' \in [Writers -> Writer \cup {NoWriter}]
  BY <1>3, <1>4, <1>5 DEF LockInv
<1>7. InOrder(w)'
  <2>1. ASSUME NEW l \in Takes(op) \ Among(Tail(s)), NEW k \in Among(Tail(s)) PROVE Rank[l] < Rank[k]
    <3>1. CASE l = Head(s)
      BY <1>2, <2>1, <3>1
    <3>2. CASE l \in Takes(op) \ Among(s)
      BY <1>1, <1>2, <2>1, <3>2 DEF InOrder
    <3> QED
      BY <1>2, <2>1, <3>1, <3>2
  <2> QED
    BY <1>1, <1>2, <1>5, <2>1 DEF InOrder
<1>8. \A v \in Writers \ {w} : writer[v] # NoWriter => InOrder(v)'
  BY <1>4 DEF InOrder, LockInv
<1>9. Head(s) \in Takes(op)
  BY <1>1, <1>2 DEF InOrder
<1>10. ASSUME NEW v \in Writers, NEW l \in Locks
       PROVE  lock'[l] = v <=> /\ writer'[v] # NoWriter
                               /\ l \in Takes(writer'[v].request.op) \ Among(writer'[v].locks)
  <2>1. CASE l = Head(s)
    <3>1. lock'[l] = w /\ lock[l] # v
      BY <1>3, <2>1, Markers DEF LockInv
    <3>2. CASE v = w
      BY <1>2, <1>5, <1>9, <2>1, <3>1, <3>2, Markers
    <3>3. CASE v # w
      BY <1>4, <2>1, <3>1, <3>3 DEF LockInv
    <3> QED
      BY <3>2, <3>3
  <2>2. CASE l # Head(s)
    <3>1. lock'[l] = lock[l]
      BY <1>3, <2>2 DEF LockInv
    <3>2. CASE v = w
      BY <1>1, <1>2, <1>5, <2>2, <3>1, <3>2, Markers DEF LockInv
    <3>3. CASE v # w
      BY <1>4, <3>1, <3>3 DEF LockInv
    <3> QED
      BY <3>2, <3>3
  <2> QED
    BY <2>1, <2>2
<1>11. lock' \in [Locks -> Writers \cup {None}]
  BY <1>3 DEF LockInv
<1> QED
  BY <1>4, <1>6, <1>7, <1>8, <1>10, <1>11 DEF LockInv

LEMMA LockValidate == ASSUME LockInv, NEW w \in Writers, Validate(w) PROVE LockInv'
<1> DEFINE new == [writer[w] EXCEPT !.pc = "write", !.affected = Affected(writer[w].request)]
<1>1. writer[w] # NoWriter /\ writer[w] \in Writer /\ InOrder(w) /\ writer[w].locks = <<>>
  BY Markers DEF Validate, LockInv
<1>2. /\ writer' = [writer EXCEPT ![w] = new] /\ lock' = lock
  BY DEF Validate
<1>3. Affected(writer[w].request) \subseteq Users
  BY DEF Affected
<1>4. /\ new \in Writer /\ new.pc = "write" /\ new.request = writer[w].request /\ new.locks = <<>>
  BY <1>1, <1>3 DEF Writer
<1>5. /\ writer' \in [Writers -> Writer \cup {NoWriter}]
      /\ writer'[w] = new
      /\ \A v \in Writers \ {w} : writer'[v] = writer[v]
  BY <1>2, <1>4 DEF LockInv
<1>6. InOrder(w)'
  BY <1>1, <1>4, <1>5 DEF InOrder
<1>7. \A v \in Writers \ {w} : writer[v] # NoWriter => InOrder(v)'
  BY <1>5 DEF InOrder, LockInv
<1>8. new # NoWriter
  BY <1>4, Markers
<1>9. \A v \in Writers : /\ writer'[v] # NoWriter <=> writer[v] # NoWriter
                          /\ writer'[v].request = writer[v].request /\ writer'[v].locks = writer[v].locks
  BY <1>1, <1>4, <1>5, <1>8
<1> QED
  BY <1>2, <1>5, <1>6, <1>7, <1>9 DEF LockInv

LEMMA LockRelease == ASSUME LockInv, NEW w \in Writers, Release(w) PROVE LockInv'
<1>1. /\ writer' = [writer EXCEPT ![w] = NoWriter]
      /\ lock' = [l \in Locks |-> IF lock[l] = w THEN None ELSE lock[l]]
  BY DEF Release
<1>2. /\ writer' \in [Writers -> Writer \cup {NoWriter}] /\ lock' \in [Locks -> Writers \cup {None}]
      /\ writer'[w] = NoWriter
      /\ \A v \in Writers \ {w} : writer'[v] = writer[v]
  BY <1>1 DEF LockInv
<1>3. \A v \in Writers \ {w} : writer[v] # NoWriter => InOrder(v)'
  BY <1>2 DEF InOrder, LockInv
<1>4. \A l \in Locks, v \in Writers : lock'[l] = v <=> lock[l] = v /\ v # w
  BY <1>1, Markers
<1> QED
  BY <1>2, <1>3, <1>4 DEF LockInv

LEMMA LockNext == ASSUME LockInv, [Next]_vars PROVE LockInv'
<1>1. CASE UNCHANGED vars
  BY <1>1 DEF vars, LockInv, InOrder
<1>2. ASSUME NEW w \in Writers, Begin(w) \/ Acquire(w) \/ Validate(w) \/ Refuse(w) \/ Write(w)
      PROVE  LockInv'
  <2>1. Refuse(w) \/ Write(w) => Release(w)
    BY DEF Refuse, Write
  <2> QED
    BY <1>2, <2>1, LockBegin, LockAcquire, LockValidate, LockRelease
<1> QED
  BY <1>1, <1>2 DEF Next

\* A writer that waits, waits for a lock above those it holds: so the one that
\* holds the highest of all does not wait.
LEMMA HighestMoves == ASSUME LockInv PROVE SomebodyMoves
<1> SUFFICES ASSUME NEW w \in Writers, writer[w] # NoWriter,
                    \A v \in Writers : ~ \/ writer[v].pc = "write"
                                         \/ /\ writer[v].pc = "lock"
                                            /\ writer[v].locks # <<>> => lock[Head(writer[v].locks)] = None
             PROVE  FALSE
  BY DEF SomebodyMoves
<1> DEFINE next(v) == Head(writer[v].locks)
<1>1. ASSUME NEW v \in Writers, writer[v] # NoWriter
      PROVE  /\ next(v) \in Locks /\ lock[next(v)] \in Writers
             /\ \A l \in Locks : lock[l] = v => Rank[l] < Rank[next(v)]
  <2>1. writer[v].pc \in {"lock", "write"} /\ InOrder(v)
    BY <1>1 DEF LockInv, Writer
  <2>2. writer[v].locks # <<>> /\ lock[next(v)] # None
    BY <2>1
  <2>3. next(v) \in Locks /\ next(v) \in Among(writer[v].locks)
    BY <2>1, <2>2, Rest DEF InOrder
  <2> QED
    BY <1>1, <2>1, <2>2, <2>3 DEF LockInv, InOrder
<1>2. ASSUME NEW l \in Locks, lock[l] \in Writers
      PROVE  \E k \in Locks : Rank[l] < Rank[k] /\ lock[k] \in Writers
  BY <1>1, <1>2 DEF LockInv
<1>3. \A l \in Locks : lock[l] \notin Writers
  <2>1. lock["menu"] \notin Writers
    BY <1>2 DEF Locks, Rank
  <2>2. lock["dept"] \notin Writers
    BY <1>2, <2>1 DEF Locks, Rank
  <2>3. lock["post"] \notin Writers
    BY <1>2, <2>1, <2>2 DEF Locks, Rank
  <2>4. lock["role"] \notin Writers
    BY <1>2, <2>1, <2>2, <2>3 DEF Locks, Rank
  <2>5. lock["user"] \notin Writers
    BY <1>2, <2>1, <2>2, <2>3, <2>4 DEF Locks, Rank
  <2> QED
    BY <2>1, <2>2, <2>3, <2>4, <2>5 DEF Locks
<1> QED
  BY <1>1, <1>3

\* The writers never all wait for each other: the helpers of write_locks.go
\* take the locks of every operation in the same order.
THEOREM NoDeadlock == Spec => []SomebodyMoves
<1>1. Init => LockInv
  BY LockInit
<1>2. LockInv /\ [Next]_vars => LockInv'
  BY LockNext
<1>3. LockInv => SomebodyMoves
  BY HighestMoves
<1> QED
  BY <1>1, <1>2, <1>3, PTL DEF Spec

-----------------------------------------------------------------------------
(* The rows.                                                               *)

LEMMA Apart ==
    /\ Users \cap Roles = {} /\ Users \cap Menus = {} /\ Users \cap Posts = {} /\ Users \cap Depts = {}
    /\ Roles \cap Menus = {} /\ Roles \cap Posts = {} /\ Roles \cap Depts = {}
    /\ Menus \cap Posts = {} /\ Menus \cap Depts = {} /\ Posts \cap Depts = {}
<1>1. /\ Kind("user") = Users /\ Kind("role") = Roles /\ Kind("menu") = Menus
      /\ Kind("post") = Posts /\ Kind("dept") = Depts
  BY DEF Kind
<1> QED
  BY <1>1, KindsAssumption DEF Locks

\* Which rows may point at which.
Links == (Users \X UserLinks) \cup (Roles \X (Menus \cup Depts)) \cup (Menus \X Menus)

RowsInv ==
    /\ rows \in [Ids -> {"unborn", "live", "deleted"}]
    /\ refers \subseteq Links
    /\ ofDeletedRole \subseteq refers

\* The operations that make a row point at what the request names.
Linking == {"CreateUser", "UpdateUser", "ImportUser", "AssignUserRoles", "CreateRole", "UpdateRole",
            "AuthDataScope", "CreateMenu", "UpdateMenu"}

\* Which links a write adds, and which it takes away.
LEMMA LinksAdded ==
    ASSUME NEW q, Shaped(q), NEW link \in LinksAfter(q) \ refers
    PROVE  /\ link \in Links
           /\ \/ q.op \in Linking /\ link[1] = q.id /\ link[2] \in q.to
              \/ q.op = "GrantAuthUser" /\ link[1] \in q.to /\ link[2] = q.id
<1>1. CASE q.op \in Linking
  <2>1. link \in {q.id} \X q.to
    BY <1>1 DEF Linking, LinksAfter, InsertUser, UpdateUserRow, UpdateUserBasic, ReplaceUserRoles, InsertRole,
                UpdateRoleRow, AuthDataScopeRows, InsertMenu, UpdateMenuRow, Rewritten
  <2>2. /\ q.op \in {"CreateUser", "UpdateUser"} => q.id \in Users /\ q.to \subseteq UserLinks
        /\ q.op = "ImportUser" => q.id \in Users /\ q.to \subseteq UserLinks
        /\ q.op = "AssignUserRoles" => q.id \in Users /\ q.to \subseteq UserLinks
        /\ q.op \in {"CreateRole", "UpdateRole", "AuthDataScope"} => q.id \in Roles /\ q.to \subseteq Menus \cup Depts
        /\ q.op \in {"CreateMenu", "UpdateMenu"} => q.id \in Menus /\ q.to \subseteq Menus
    BY DEF Shaped, UserLinks
  <2> QED
    BY <1>1, <2>1, <2>2 DEF Links, Linking
<1>2. CASE q.op = "GrantAuthUser"
  BY <1>2 DEF LinksAfter, InsertUserRole, Shaped, Links, UserLinks
<1>3. CASE q.op \notin Linking \cup {"GrantAuthUser"}
  BY <1>3 DEF Linking, LinksAfter, DeleteUserByIDs, DeleteUserRole, DeleteRoleByIDs, DeleteMenuByID, Without
<1> QED
  BY <1>1, <1>2, <1>3

LEMMA LinksTaken ==
    ASSUME NEW q, NEW link \in LinksAfter(q), link \in refers
    PROVE  /\ q.op = "DeleteUsers" => link[1] \notin q.to \/ link[2] \notin Roles \cup Posts
           /\ q.op = "DeleteRoles" => link[1] \notin q.to \/ link[2] \notin Menus \cup Depts
           /\ q.op = "DeleteMenu" => link[1] \notin q.to \/ link[2] \notin Menus
<1>1. CASE q.op = "DeleteUsers"
  BY <1>1 DEF LinksAfter, DeleteUserByIDs, Without
<1>2. CASE q.op = "DeleteRoles"
  BY <1>2 DEF LinksAfter, DeleteRoleByIDs, Without
<1>3. CASE q.op = "DeleteMenu"
  BY <1>3 DEF LinksAfter, DeleteMenuByID, Without
<1> QED
  BY <1>1, <1>2, <1>3

\* What a writer that is about to write found, and what stays so.
Checked(q) ==
    /\ q.op \in Creating => rows[q.id] = "unborn"
    /\ q.op = "ImportUser" => rows[q.id] # "deleted"
    /\ q.op \in {"UpdateUser", "AssignUserRoles", "UpdateRole", "UpdateMenu"} => rows[q.id] = "live"
    /\ q.op \notin {"DeletePosts", "DeleteDept"} => \A id \in q.to : rows[id] = "live"
    /\ q.op \in {"DeleteRoles", "DeletePosts"} => \A link \in refers : link[2] \in q.to => link[1] \notin Users
    /\ q.op = "DeleteDept" =>
         \A link \in refers : link[2] \in q.to /\ link[1] \in Users => rows[link[1]] # "live"
    /\ q.op = "DeleteMenu" => \A link \in refers : link[2] \in q.to => link[1] \notin Roles \cup Menus

ReferenceInv ==
    /\ RowsInv
    /\ ReferencesLive
    /\ \A w \in Writers : writer[w].pc = "write" => Checked(writer[w].request)

LEMMA PermittedChecked == ASSUME NEW q, Shaped(q), RowsInv, Permitted(q) PROVE Checked(q)
<1>1. \A ids : checkIDs(ids) => \A id \in ids : rows[id] = "live"
  BY DEF checkIDs, ensureAllIDs, SelectExisting
<1>2. \A ids, link : link \in refers /\ link[2] \in ids => link[1] \in Pointing(ids)
  BY DEF Pointing
<1>3. q.op = "DeleteDept" =>
         \A link \in refers : link[2] \in q.to /\ link[1] \in Users => rows[link[1]] # "live"
  BY <1>2 DEF Permitted, SelectExisting
<1>4. q.op \in {"DeleteRoles", "DeletePosts"} => \A link \in refers : link[2] \in q.to => link[1] \notin Users
  BY <1>2 DEF Permitted, SelectForDelete
<1>5. q.op = "DeleteMenu" => \A link \in refers : link[2] \in q.to => link[1] \notin Roles \cup Menus
  BY <1>2 DEF Permitted, CheckMenuExistRole, HasChildByMenuID
<1> QED
  BY <1>1, <1>3, <1>4, <1>5 DEF Permitted, Checked

LEMMA ReferenceInit == ASSUME Init PROVE ReferenceInv
<1>1. PICK born \in Beginnings :
        /\ rows = [id \in Ids |-> IF id \in born THEN "live" ELSE "unborn"]
        /\ refers \subseteq (born \X born) \cap ((Users \X UserLinks) \cup (Roles \X Menus) \cup (Menus \X Menus))
  BY DEF Init
<1>2. born \subseteq Ids
  BY KindsAssumption
<1>3. RowsInv
  <2>1. ofDeletedRole = {}
    BY DEF Init
  <2> QED
    BY <1>1, <2>1 DEF RowsInv, Links
<1>4. ReferencesLive
  BY <1>1, <1>2 DEF ReferencesLive
<1>5. \A w \in Writers : writer[w].pc # "write"
  BY Markers DEF Init
<1> QED
  BY <1>3, <1>4, <1>5 DEF ReferenceInv

\* What a write does to the rows and their links.
LEMMA WriteChanges ==
    ASSUME LockInv, ReferenceInv, NEW w \in Writers, Write(w)
    PROVE  LET q == writer[w].request
           IN  /\ Shaped(q) /\ Checked(q)
               /\ writer[w] # NoWriter /\ writer[w].locks = <<>>
               /\ refers' = LinksAfter(q)
               /\ ofDeletedRole' = (ofDeletedRole \cup LinksUnlooked(q)) \cap refers'
               /\ rows' \in [Ids -> {"unborn", "live", "deleted"}]
               /\ \A id \in Ids :
                    \/ rows'[id] = rows[id]
                    \/ q.op \in Creating \cup {"ImportUser"} /\ id = q.id /\ rows[id] # "deleted" /\ rows'[id] = "live"
                    \/ q.op \in Deleting /\ id \in q.to /\ rows'[id] = "deleted"
               /\ q.op \in Creating \cup {"ImportUser"} => rows'[q.id] = "live"
               /\ q.op \in Deleting => \A id \in q.to : rows'[id] = "deleted"
               /\ q.op \notin Deleting => \A id \in Ids : rows[id] = "live" => rows'[id] = "live"
<1> DEFINE q == writer[w].request
<1>1. /\ writer[w].pc = "write" /\ refers' = LinksAfter(q)
      /\ ofDeletedRole' = (ofDeletedRole \cup LinksUnlooked(q)) \cap refers'
      /\ rows' = [id \in Ids |->
             IF q.op \in Creating \cup {"ImportUser"} /\ id = q.id THEN "live"
             ELSE IF q.op \in Deleting /\ id \in q.to THEN "deleted" ELSE rows[id]]
  BY DEF Write
<1>2. Checked(q)
  BY <1>1 DEF ReferenceInv
<1>3. writer[w] # NoWriter
  BY <1>1, Markers
<1>4. Shaped(q) /\ writer[w].locks = <<>>
  BY <1>1, <1>3 DEF LockInv, InOrder
<1>5. rows' \in [Ids -> {"unborn", "live", "deleted"}]
  BY <1>1 DEF ReferenceInv, RowsInv
<1>6. Creating \cap Deleting = {} /\ "ImportUser" \notin Deleting \cup Creating
  BY DEF Creating, Deleting
<1>7. q.op \in Creating \cup {"ImportUser"} => q.id \in Ids /\ rows[q.id] # "deleted"
  <2>1. q.op \in Creating \cup {"ImportUser"} => q.id \in Ids
    BY <1>4 DEF Shaped, Creating, Ids
  <2> QED
    BY <1>2, <2>1 DEF Checked
<1>8. q.op \in Deleting => \A id \in q.to : id \in Ids
  BY <1>4 DEF Shaped, Request
<1> QED
  BY <1>1, <1>2, <1>3, <1>4, <1>5, <1>6, <1>7, <1>8

LEMMA WriteKeepsReferences ==
    ASSUME LockInv, ReferenceInv, NEW w \in Writers, Write(w)
    PROVE  RowsInv' /\ ReferencesLive'
<1> DEFINE q == writer[w].request
<1>1. /\ Shaped(q) /\ Checked(q)
      /\ refers' = LinksAfter(q)
      /\ ofDeletedRole' = (ofDeletedRole \cup LinksUnlooked(q)) \cap refers'
      /\ rows' \in [Ids -> {"unborn", "live", "deleted"}]
      /\ \A id \in Ids :
           \/ rows'[id] = rows[id]
           \/ q.op \in Creating \cup {"ImportUser"} /\ id = q.id /\ rows[id] # "deleted" /\ rows'[id] = "live"
           \/ q.op \in Deleting /\ id \in q.to /\ rows'[id] = "deleted"
      /\ q.op \in Creating \cup {"ImportUser"} => rows'[q.id] = "live"
      /\ q.op \in Deleting => \A id \in q.to : rows'[id] = "deleted"
      /\ q.op \notin Deleting => \A id \in Ids : rows[id] = "live" => rows'[id] = "live"
  BY WriteChanges
<1>2. refers \subseteq Links
  BY DEF ReferenceInv, RowsInv
<1>3. \A link \in refers' : link \in Links
  BY <1>1, <1>2, LinksAdded
<1>4. RowsInv'
  BY <1>1, <1>3 DEF RowsInv
<1> DEFINE Live(link) ==
             \/ rows'[link[1]] = "live" /\ rows'[link[2]] = "live"
             \/ link \in ofDeletedRole' /\ link[1] \in Users /\ link[2] \in Roles /\ rows'[link[1]] = "live"
             \/ link \in ofDeletedRole' /\ link[1] \in Roles /\ link[2] \in Depts
             \/ link[1] \in Users /\ link[2] \in Depts /\ rows'[link[1]] = "deleted"
             \/ link[1] \in Roles /\ link[2] \in Depts /\ rows'[link[1]] = "live" /\ rows'[link[2]] = "deleted"
<1>5. \A link \in Links : link[1] \in Ids /\ link[2] \in Ids
  BY DEF Links, Ids, UserLinks
<1>6. ASSUME NEW link \in refers', link \notin refers PROVE Live(link)
  <2>1. /\ link \in Links
        /\ \/ q.op \in Linking /\ link[1] = q.id /\ link[2] \in q.to
           \/ q.op = "GrantAuthUser" /\ link[1] \in q.to /\ link[2] = q.id
    BY <1>1, <1>6, LinksAdded
  <2>2. q.op \notin Deleting /\ \A id \in q.to : rows'[id] = "live"
    <3>1. q.op \notin Deleting
      BY <2>1 DEF Linking, Deleting
    <3>2. \A id \in q.to : id \in Ids /\ rows[id] = "live"
      BY <1>1, <3>1 DEF Shaped, Request, Checked, Deleting
    <3> QED
      BY <1>1, <3>1, <3>2
  <2>3. CASE q.op = "GrantAuthUser"
    <3>1. link[1] \in q.to /\ link[2] = q.id /\ link = <<link[1], link[2]>>
          /\ link[1] \in Users /\ link[2] \in Roles /\ rows'[link[1]] = "live"
      BY <1>1, <2>1, <2>2, <2>3 DEF Shaped, Linking, Links
    <3>2. rows[q.id] # "live" => link \in LinksUnlooked(q)
      BY <2>3, <3>1 DEF LinksUnlooked
    <3>3. rows[q.id] = "live" => rows'[link[2]] = "live"
      BY <1>1, <2>2, <3>1 DEF Ids
    <3> QED
      BY <1>1, <1>6, <3>1, <3>2, <3>3
  <2>4. CASE q.op = "AuthDataScope"
    <3>1. link[1] = q.id /\ link[2] \in q.to /\ link = <<link[1], link[2]>>
          /\ link[1] \in Roles /\ link[2] \in Depts /\ rows'[link[2]] = "live"
      BY <1>1, <2>1, <2>2, <2>4 DEF Shaped, Linking, Links
    <3>2. rows[q.id] # "live" => link \in LinksUnlooked(q)
      BY <2>4, <3>1 DEF LinksUnlooked
    <3>3. rows[q.id] = "live" => rows'[link[1]] = "live"
      BY <1>1, <2>2, <3>1 DEF Ids
    <3> QED
      BY <1>1, <1>6, <3>1, <3>2, <3>3
  <2>5. CASE q.op \in Linking \ {"AuthDataScope"}
    <3>1. q.op \in {"CreateUser", "CreateRole", "CreateMenu", "ImportUser"} => rows'[q.id] = "live"
      BY <1>1 DEF Creating
    <3>2. q.op \in {"UpdateUser", "AssignUserRoles", "UpdateRole", "UpdateMenu"} => rows'[q.id] = "live"
      BY <1>1, <2>2 DEF Checked, Shaped, Ids
    <3> QED
      BY <2>1, <2>2, <2>5, <3>1, <3>2 DEF Linking
  <2> QED
    BY <2>1, <2>3, <2>4, <2>5
<1>7. ASSUME NEW link \in refers', link \in refers PROVE Live(link)
  <2>1. link \in Links /\ link[1] \in Ids /\ link[2] \in Ids
    BY <1>2, <1>5, <1>7
  <2>2. \/ rows[link[1]] = "live" /\ rows[link[2]] = "live"
        \/ link \in ofDeletedRole /\ link[1] \in Users /\ link[2] \in Roles /\ rows[link[1]] = "live"
        \/ link \in ofDeletedRole /\ link[1] \in Roles /\ link[2] \in Depts
        \/ link[1] \in Users /\ link[2] \in Depts /\ rows[link[1]] = "deleted"
        \/ link[1] \in Roles /\ link[2] \in Depts /\ rows[link[1]] = "live" /\ rows[link[2]] = "deleted"
    BY <1>7 DEF ReferenceInv, ReferencesLive
  <2>3. /\ rows[link[1]] = "deleted" => rows'[link[1]] = "deleted"
        /\ rows[link[2]] = "deleted" => rows'[link[2]] = "deleted"
        /\ link \in ofDeletedRole => link \in ofDeletedRole'
    BY <1>1, <1>7, <2>1
  <2>4. CASE q.op \notin Deleting
    BY <1>1, <2>1, <2>2, <2>3, <2>4
  <2>5. /\ q.op = "DeleteUsers" => link[1] \notin q.to \/ link[2] \notin Roles \cup Posts
        /\ q.op = "DeleteRoles" => link[1] \notin q.to \/ link[2] \notin Menus \cup Depts
        /\ q.op = "DeleteMenu" => link[1] \notin q.to \/ link[2] \notin Menus
    BY <1>1, <1>7, LinksTaken
  <2>6. \/ link[1] \in Users /\ link[2] \in UserLinks
        \/ link[1] \in Roles /\ link[2] \in Menus \cup Depts
        \/ link[1] \in Menus /\ link[2] \in Menus
    BY <2>1 DEF Links
  <2>7. CASE q.op = "DeleteUsers"
    BY <1>1, <2>1, <2>2, <2>3, <2>5, <2>6, <2>7, Apart DEF Shaped, Deleting, UserLinks
  <2>8. CASE q.op = "DeleteRoles"
    BY <1>1, <1>7, <2>1, <2>2, <2>3, <2>5, <2>6, <2>8, Apart DEF Shaped, Deleting, UserLinks, Checked
  <2>9. CASE q.op = "DeleteMenu"
    BY <1>1, <1>7, <2>1, <2>2, <2>3, <2>5, <2>6, <2>9, Apart DEF Shaped, Deleting, UserLinks, Checked
  <2>10. CASE q.op = "DeletePosts"
    BY <1>1, <1>7, <2>1, <2>2, <2>3, <2>6, <2>10, Apart DEF Shaped, Deleting, UserLinks, Checked
  <2>11. CASE q.op = "DeleteDept"
    BY <1>1, <1>7, <2>1, <2>2, <2>3, <2>6, <2>11, Apart DEF Shaped, Deleting, UserLinks, Checked
  <2> QED
    BY <2>4, <2>7, <2>8, <2>9, <2>10, <2>11 DEF Deleting
<1> QED
  BY <1>4, <1>6, <1>7 DEF ReferencesLive

\* What a writer found stays so while it holds its locks: another one that
\* writes has taken none of them, and a row and the links to it change only
\* under the lock of its kind.
LEMMA WriteRespects ==
    ASSUME LockInv, ReferenceInv, NEW w \in Writers, Write(w), NEW l \in Locks \ Takes(writer[w].request.op)
    PROVE  /\ \A id \in Kind(l) : rows'[id] = rows[id]
           /\ \A link \in refers' : link[2] \in Kind(l) => link \in refers
<1> DEFINE q == writer[w].request
<1>1. /\ Shaped(q)
      /\ refers' = LinksAfter(q)
      /\ \A id \in Ids :
           \/ rows'[id] = rows[id]
           \/ q.op \in Creating \cup {"ImportUser"} /\ id = q.id
           \/ q.op \in Deleting /\ id \in q.to
  BY WriteChanges
<1>2. /\ Kind("user") = Users /\ Kind("role") = Roles /\ Kind("menu") = Menus
      /\ Kind("post") = Posts /\ Kind("dept") = Depts
  BY DEF Kind
<1>3. Kind(l) \subseteq Ids
  BY <1>2 DEF Ids, Locks
<1>4. ASSUME NEW k \in Takes(q.op) PROVE Kind(k) \cap Kind(l) = {}
  <2>1. k \in Locks /\ k # l
    BY <1>1, <1>4, Ranks DEF Shaped, Request
  <2> QED
    BY <2>1, KindsAssumption
<1>5. ASSUME NEW id \in Kind(l) PROVE rows'[id] = rows[id]
  <2>1. ASSUME q.op \in Creating \cup {"ImportUser"}, id = q.id PROVE FALSE
    <3>1. \E k \in Takes(q.op) : q.id \in Kind(k)
      BY <1>1, <1>2, <2>1 DEF Shaped, Creating, Takes
    <3> QED
      BY <1>4, <1>5, <2>1, <3>1
  <2>2. ASSUME q.op \in Deleting, id \in q.to PROVE FALSE
    <3>1. \E k \in Takes(q.op) : q.to \subseteq Kind(k)
      BY <1>1, <1>2, <2>2 DEF Shaped, Deleting, Takes
    <3> QED
      BY <1>4, <1>5, <2>2, <3>1
  <2> QED
    BY <1>1, <1>3, <1>5, <2>1, <2>2
<1>6. ASSUME NEW link \in refers', link \notin refers PROVE link[2] \notin Kind(l)
  <2>1. \/ q.op \in Linking /\ link[2] \in q.to
        \/ q.op = "GrantAuthUser" /\ link[2] = q.id
    BY <1>1, <1>6, LinksAdded
  <2>2. \E k \in Takes(q.op) : link[2] \in Kind(k)
    <3>1. CASE q.op \in {"CreateUser", "UpdateUser"}
      BY <1>1, <1>2, <2>1, <3>1 DEF Shaped, UserLinks, Takes
    <3>2. CASE q.op \in {"ImportUser", "AssignUserRoles", "CreateRole", "UpdateRole"}
      BY <1>1, <1>2, <2>1, <3>2 DEF Shaped, Takes
    <3>3. CASE q.op \in {"AuthDataScope", "CreateMenu", "UpdateMenu", "GrantAuthUser"}
      BY <1>1, <1>2, <2>1, <3>3 DEF Shaped, Takes, Linking
    <3> QED
      BY <2>1, <3>1, <3>2, <3>3 DEF Linking
  <2> QED
    BY <1>4, <2>2
<1> QED
  BY <1>5, <1>6

LEMMA WriteKeepsChecked ==
    ASSUME LockInv, ReferenceInv, NEW w \in Writers, Write(w),
           NEW v \in Writers \ {w}, writer[v].pc = "write"
    PROVE  Checked(writer[v].request)'
<1> DEFINE q == writer[v].request
           mine == writer[w].request
<1>1. /\ writer[v] # NoWriter /\ Shaped(q) /\ writer[v].locks = <<>>
      /\ Checked(q)
  BY Markers DEF LockInv, InOrder, ReferenceInv
<1>2. /\ writer[w] # NoWriter /\ writer[w].locks = <<>> /\ Shaped(mine)
      /\ rows' \in [Ids -> {"unborn", "live", "deleted"}]
      /\ \A id \in Ids : rows[id] = "deleted" => rows'[id] = "deleted"
  BY WriteChanges
<1>3. q' = q
  BY DEF Write, Release, LockInv
<1>4. ASSUME NEW l \in Takes(q.op) PROVE l \in Locks \ Takes(mine.op)
  <2>1. l \in Locks
    BY <1>1, <1>4, Ranks DEF Shaped, Request
  <2>2. lock[l] = v
    BY <1>1, <2>1, <1>4 DEF LockInv, Among
  <2> QED
    BY <1>2, <2>1, <2>2 DEF LockInv, Among
<1>5. \A l \in Takes(q.op) : /\ \A id \in Kind(l) : rows'[id] = rows[id]
                             /\ \A link \in refers' : link[2] \in Kind(l) => link \in refers
  BY <1>4, WriteRespects
<1>6. /\ Kind("user") = Users /\ Kind("role") = Roles /\ Kind("menu") = Menus
      /\ Kind("post") = Posts /\ Kind("dept") = Depts
  BY DEF Kind
<1>7. q.op \in Creating \cup {"ImportUser", "UpdateUser", "AssignUserRoles", "UpdateRole", "UpdateMenu"} =>
        rows'[q.id] = rows[q.id]
  BY <1>1, <1>5, <1>6 DEF Shaped, Creating, Takes
<1>8. \A id \in q.to : rows'[id] = rows[id]
  <2>1. \A id \in q.to : \E l \in Takes(q.op) : id \in Kind(l)
    <3>1. CASE q.op \in {"CreateUser", "UpdateUser"}
      BY <1>1, <1>6, <3>1 DEF Shaped, UserLinks, Takes
    <3>2. CASE q.op \in Deleting
      BY <1>1, <1>6, <3>2 DEF Shaped, Deleting, Takes
    <3>3. CASE q.op \notin Deleting \cup {"CreateUser", "UpdateUser"}
      <4>1. q.op \in {"ImportUser", "Register", "ChangeUserStatus", "AssignUserRoles", "GrantAuthUser", "CancelAuthUser",
                      "CreateRole", "UpdateRole", "ChangeRoleStatus", "AuthDataScope",
                      "CreateMenu", "UpdateMenu", "CreatePost", "CreateDept"}
        BY <1>1, <3>3 DEF Shaped, Request, Operations, Creating, Deleting, Replacing
      <4>2. CASE q.op \in {"ImportUser", "Register", "ChangeUserStatus", "AssignUserRoles", "GrantAuthUser", "CancelAuthUser"}
        BY <1>1, <1>6, <4>2 DEF Shaped, Takes
      <4>3. CASE q.op \in {"CreateRole", "UpdateRole", "ChangeRoleStatus", "AuthDataScope"}
        BY <1>1, <1>6, <4>3 DEF Shaped, Takes
      <4>4. CASE q.op \in {"CreateMenu", "UpdateMenu", "CreatePost", "CreateDept"}
        BY <1>1, <1>6, <4>4 DEF Shaped, Takes
      <4> QED
        BY <4>1, <4>2, <4>3, <4>4
    <3> QED
      BY <3>1, <3>2, <3>3
  <2> QED
    BY <1>5, <2>1
<1>9. q.op \in Deleting \ {"DeleteUsers"} => \A link \in refers' : link[2] \in q.to => link \in refers
  BY <1>1, <1>5, <1>6 DEF Shaped, Deleting, Takes
<1>10. q.op = "DeleteDept" =>
         \A link \in refers' : link[2] \in q.to /\ link[1] \in Users => rows'[link[1]] # "live"
  <2>1. ASSUME NEW link \in refers, q.op = "DeleteDept", link[2] \in q.to, link[1] \in Users
        PROVE  rows'[link[1]] # "live"
    <3>1. rows[link[1]] # "live"
      BY <1>1, <2>1 DEF Checked
    <3>2. rows[link[1]] = "deleted"
      BY <2>1, <3>1, Apart DEF ReferenceInv, ReferencesLive
    <3> QED
      BY <1>2, <2>1, <3>2 DEF Ids
  <2> QED
    BY <1>9, <2>1 DEF Deleting
<1> QED
  BY <1>1, <1>3, <1>7, <1>8, <1>9, <1>10 DEF Checked, Deleting

LEMMA ReferenceNext == ASSUME LockInv, LockInv', ReferenceInv, [Next]_vars PROVE ReferenceInv'
<1>1. ASSUME UNCHANGED database,
             \A v \in Writers : \/ writer'[v].pc = "write" => writer[v].pc = "write" /\ writer'[v].request = writer[v].request
                                \/ Checked(writer'[v].request)
      PROVE  ReferenceInv'
  <2>1. RowsInv' /\ ReferencesLive'
    BY <1>1 DEF database, ReferenceInv, RowsInv, ReferencesLive
  <2>2. \A v \in Writers : writer'[v].pc = "write" => Checked(writer'[v].request)
    BY <1>1 DEF ReferenceInv
  <2> QED
    BY <1>1, <2>1, <2>2 DEF ReferenceInv, Checked, database
<1>2. CASE UNCHANGED vars
  BY <1>1, <1>2 DEF vars, database
<1>3. ASSUME NEW w \in Writers, Begin(w) PROVE ReferenceInv'
  <2>1. PICK q \in Request, locks \in Seq(Locks) : Start(w, q.op, q.id, q.to, q.flag, locks)
    BY <1>3, BeginShapes DEF BeginShape
  <2> QED
    BY <1>1, <2>1 DEF Start, LockInv
<1>4. ASSUME NEW w \in Writers, Acquire(w) PROVE ReferenceInv'
  BY <1>1, <1>4 DEF Acquire, LockInv
<1>5. ASSUME NEW w \in Writers, Validate(w) PROVE ReferenceInv'
  <2>1. /\ Permitted(writer[w].request) /\ UNCHANGED database
        /\ writer' = [writer EXCEPT ![w] =
             [writer[w] EXCEPT !.pc = "write", !.affected = Affected(writer[w].request)]]
    BY <1>5 DEF Validate
  <2>2. writer[w] # NoWriter /\ writer[w] \in Writer /\ Shaped(writer[w].request)
    BY <1>5, Markers DEF Validate, LockInv, InOrder
  <2>3. Checked(writer[w].request)
    BY <2>1, <2>2, PermittedChecked DEF ReferenceInv
  <2>4. writer'[w].request = writer[w].request /\ \A v \in Writers \ {w} : writer'[v] = writer[v]
    BY <2>1, <2>2 DEF LockInv, Writer
  <2> QED
    BY <1>1, <2>1, <2>3, <2>4
<1>6. ASSUME NEW w \in Writers, Refuse(w) PROVE ReferenceInv'
  BY <1>1, <1>6, Markers DEF Refuse, Release, LockInv
<1>7. ASSUME NEW w \in Writers, Write(w) PROVE ReferenceInv'
  <2>1. RowsInv' /\ ReferencesLive'
    BY <1>7, WriteKeepsReferences
  <2>2. writer'[w].pc # "write" /\ \A v \in Writers \ {w} : writer'[v] = writer[v]
    BY <1>7, Markers DEF Write, Release, LockInv
  <2>3. \A v \in Writers \ {w} : writer[v].pc = "write" => Checked(writer[v].request)'
    BY <1>7, WriteKeepsChecked
  <2> QED
    BY <2>1, <2>2, <2>3 DEF ReferenceInv
<1> QED
  BY <1>2, <1>3, <1>4, <1>5, <1>6, <1>7 DEF Next

\* What refers to a row finds it, however the writers interleave
\* (CONVENTIONS.md:871-873): the check of a reference and its write happen under
\* the lock of the kind referred to, and so does every deletion of that kind.
\* The theorem also bounds what escapes the check: only the links that an
\* administrator writes of a role that is deleted already, the departments of
\* deleted users, and deleted departments in the data scope of a role.
THEOREM NothingDangles == Spec => []ReferencesLive
<1>1. Init => LockInv /\ ReferenceInv
  BY LockInit, ReferenceInit
<1>2. LockInv /\ ReferenceInv /\ [Next]_vars => LockInv' /\ ReferenceInv'
  BY LockNext, ReferenceNext
<1>3. ReferenceInv => ReferencesLive
  BY DEF ReferenceInv
<1> QED
  BY <1>1, <1>2, <1>3, PTL DEF Spec

-----------------------------------------------------------------------------
(* The tree of menus.                                                      *)

\* A set of menus that has the parents of its members.
Upward(T, links) == \A link \in links : link[1] \in T /\ link[2] \in Menus => link[2] \in T

\* Such a set may have the parents of m but not m, and so be all that is above it.
Rooted(m, links) ==
    \E T \in SUBSET Menus :
        /\ Upward(T, links) /\ m \notin T
        /\ \A link \in links : link[1] = m /\ link[2] \in Menus => link[2] \in T

\* It may have these menus but not m: m is not among them and not above them.
Detached(m, menus, links) == \E T \in SUBSET Menus : Upward(T, links) /\ m \notin T /\ menus \subseteq T

\* To climb is to find the least such set.
LEMMA AboveLeast ==
    ASSUME NEW S \in SUBSET Menus
    PROVE  /\ Above(S) \in SUBSET Menus /\ S \subseteq Above(S) /\ Upward(Above(S), refers)
           /\ \A T \in SUBSET Menus : S \subseteq T /\ Upward(T, refers) => Above(S) \subseteq T
<1> DEFINE up == [X \in SUBSET Menus |-> Parents(X)]
           steps == Cardinality(Menus)
           Grown(climb) == climb = [n \in 0..steps |->
                                      IF n = 0 THEN S ELSE climb[n - 1] \cup Parents(climb[n - 1])]
           climb == CHOOSE c : Grown(c)
<1>1. \A X : Parents(X) \in SUBSET Menus
  BY DEF Parents
<1>2. up \in [SUBSET Menus -> SUBSET Menus] /\ up[{}] = {} /\ \A X \in SUBSET Menus : up[X] = Parents(X)
  BY <1>1 DEF Parents
<1>3. steps \in Nat /\ IsFiniteSet(Menus) /\ Cardinality(Menus) <= steps + 1
  BY KindsAssumption, FS_CardinalityType
<1> HIDE DEF up, steps
<1>4. ASSUME NEW c, \A n \in 0..steps : n # 0 => c[n - 1] \in SUBSET Menus
      PROVE  Climbs(c, S, up, steps) <=> Grown(c)
  <2>1. \A n \in 0..steps : n # 0 => up[c[n - 1]] = Parents(c[n - 1])
    BY <1>2, <1>4
  <2>2. [n \in 0..steps |-> IF n = 0 THEN S ELSE c[n - 1] \cup up[c[n - 1]]]
        = [n \in 0..steps |-> IF n = 0 THEN S ELSE c[n - 1] \cup Parents(c[n - 1])]
    BY <2>1
  <2> QED
    BY <2>2 DEF Climbs
<1>5. \E c : Grown(c)
  <2>1. PICK c \in [0..steps -> SUBSET Menus] : Climbs(c, S, up, steps)
    BY <1>2, <1>3, ClimbExists
  <2>2. \A n \in 0..steps : n # 0 => c[n - 1] \in SUBSET Menus
    BY <1>3, <2>1
  <2> QED
    BY <1>4, <2>1, <2>2
<1>6. Grown(climb)
  <2> HIDE DEF Grown
  <2> QED
    BY <1>5, Zenon
<1>7. Above(S) = climb[steps]
  BY Zenon DEF Above, steps
<1> HIDE DEF climb
<1> DEFINE Within == {n \in Nat : n <= steps => climb[n] \in SUBSET Menus}
<1>8. Nat \subseteq Within
  <2>1. \A n \in 0..steps : climb[n] = IF n = 0 THEN S ELSE climb[n - 1] \cup Parents(climb[n - 1])
    BY <1>6
  <2>2. 0 \in Within
    <3>1. 0 \in 0..steps
      BY <1>3
    <3>2. climb[0] = IF 0 = 0 THEN S ELSE climb[0 - 1] \cup Parents(climb[0 - 1])
      BY <2>1, <3>1, Zenon
    <3>3. climb[0] = S
      BY <3>2, Zenon
    <3> QED
      BY <3>3
  <2>3. ASSUME NEW n \in Nat, n \in Within PROVE n + 1 \in Within
    <3>1. SUFFICES ASSUME n + 1 <= steps PROVE climb[n + 1] \in SUBSET Menus
      BY <2>3
    <3>2. n + 1 \in 0..steps /\ n + 1 # 0 /\ (n + 1) - 1 = n /\ climb[n] \in SUBSET Menus
      BY <1>3, <2>3, <3>1
    <3>3. climb[n + 1] = climb[n] \cup Parents(climb[n])
      BY <2>1, <3>2
    <3> QED
      BY <1>1, <3>2, <3>3
  <2> HIDE DEF Within
  <2> QED
    BY <2>2, <2>3, NatInduct
<1>9. Climbs(climb, S, up, steps)
  <2>1. \A n \in 0..steps : n # 0 => climb[n - 1] \in SUBSET Menus
    <3>1. \A n \in 0..steps : n # 0 => n - 1 \in Nat /\ n - 1 <= steps
      BY <1>3
    <3> QED
      BY <1>8, <3>1
  <2> QED
    BY <1>4, <1>6, <2>1
<1>10. LeastAbove(climb[steps], S, Menus, up)
  BY <1>2, <1>3, <1>9, ClimbCloses
<1>11. \A T \in SUBSET Menus : Upward(T, refers) <=> Parents(T) \subseteq T
  BY DEF Upward, Parents, Targets
<1>12. \A T \in SUBSET Menus : Upward(T, refers) => HasAbove(T, Menus, up)
  BY <1>2 DEF HasAbove, Upward, Parents, Targets
<1>13. Upward(climb[steps], refers)
  BY <1>2, <1>10, <1>11 DEF LeastAbove
<1> QED
  BY <1>7, <1>10, <1>12, <1>13 DEF LeastAbove

LEMMA ForestRooted == MenusAreForest <=> \A m \in Menus : Rooted(m, refers)
<1> SUFFICES ASSUME NEW m \in Menus PROVE m \notin Above(Parents({m})) <=> Rooted(m, refers)
  BY DEF MenusAreForest
<1>1. /\ Parents({m}) \in SUBSET Menus
      /\ \A T : Parents({m}) \subseteq T <=> \A link \in refers : link[1] = m /\ link[2] \in Menus => link[2] \in T
  BY DEF Parents, Targets
<1>2. ASSUME m \notin Above(Parents({m})) PROVE Rooted(m, refers)
  BY <1>1, <1>2, AboveLeast DEF Rooted
<1>3. ASSUME Rooted(m, refers) PROVE m \notin Above(Parents({m}))
  BY <1>1, <1>3, AboveLeast DEF Rooted
<1> QED
  BY <1>2, <1>3

\* A menu that moves under one it is not above keeps the forest.
LEMMA Reparented ==
    ASSUME NEW old, NEW new, NEW id \in Menus, NEW to \in SUBSET Menus,
           \A m \in Menus : Rooted(m, old), Detached(id, to, old),
           \A link \in new : link[1] \in Menus /\ link[2] \in Menus =>
             \/ link \in old /\ link[1] # id
             \/ link[1] = id /\ link[2] \in to
    PROVE  \A m \in Menus : Rooted(m, new)
<1>1. PICK B \in SUBSET Menus : Upward(B, old) /\ id \notin B /\ to \subseteq B
  BY DEF Detached
<1>2. \A T \in SUBSET Menus : Upward(T, old) /\ id \notin T => Upward(T, new)
  BY DEF Upward
<1>3. Rooted(id, new)
  <2>1. \A link \in new : link[1] = id /\ link[2] \in Menus => link[2] \in B
    BY <1>1
  <2> QED
    BY <1>1, <1>2, <2>1 DEF Rooted
<1>4. ASSUME NEW m \in Menus, m # id PROVE Rooted(m, new)
  <2>1. PICK A \in SUBSET Menus :
          /\ Upward(A, old) /\ m \notin A
          /\ \A link \in old : link[1] = m /\ link[2] \in Menus => link[2] \in A
    BY DEF Rooted
  <2>2. \A link \in new : link[1] = m /\ link[2] \in Menus => link \in old
    BY <1>4
  <2>3. CASE id \notin A
    BY <1>2, <2>1, <2>2, <2>3 DEF Rooted
  <2>4. CASE id \in A /\ m \notin B
    <3>1. Upward(A \cup B, new)
      BY <1>1, <2>1 DEF Upward
    <3> QED
      BY <2>1, <2>2, <2>4, <3>1 DEF Rooted
  <2>5. CASE m \in B
    <3>1. Upward(A \cap B, old)
      BY <1>1, <2>1 DEF Upward
    <3>2. Upward(A \cap B, new)
      BY <1>1, <1>2, <3>1
    <3>3. \A link \in new : link[1] = m /\ link[2] \in Menus => link[2] \in A \cap B
      BY <1>1, <2>1, <2>2, <2>5 DEF Upward
    <3> QED
      BY <2>1, <3>2, <3>3 DEF Rooted
  <2> QED
    BY <2>3, <2>4, <2>5
<1> QED
  BY <1>3, <1>4

\* So does a write that gives no menu a parent it did not have.
LEMMA LinksDropped ==
    ASSUME NEW old, NEW new,
           \A link \in new : link[1] \in Menus /\ link[2] \in Menus => link \in old
    PROVE  /\ \A m \in Menus : Rooted(m, old) => Rooted(m, new)
           /\ \A m \in Menus, menus \in SUBSET Menus : Detached(m, menus, old) => Detached(m, menus, new)
<1>1. \A T \in SUBSET Menus : Upward(T, old) => Upward(T, new)
  BY DEF Upward
<1> QED
  BY <1>1 DEF Rooted, Detached

\* The menus are a forest, and a writer that is about to move a menu found that
\* it does not move it under itself.
ForestInv ==
    /\ \A m \in Menus : Rooted(m, refers)
    /\ \A w \in Writers :
         writer[w].pc = "write" /\ writer[w].request.op = "UpdateMenu" =>
             Detached(writer[w].request.id, writer[w].request.to, refers)

LEMMA ForestInit == ASSUME Init PROVE ForestInv
<1>1. MenusAreForest
  BY DEF Init, MenusAreForest
<1>2. \A w \in Writers : writer[w].pc # "write"
  BY Markers DEF Init
<1> QED
  BY <1>1, <1>2, ForestRooted DEF ForestInv

LEMMA ForestWrite ==
    ASSUME LockInv, ReferenceInv, ForestInv, NEW w \in Writers, Write(w) PROVE ForestInv'
<1> DEFINE q == writer[w].request
<1>1. /\ Shaped(q) /\ Checked(q) /\ refers' = LinksAfter(q) /\ writer[w].locks = <<>> /\ writer[w] # NoWriter
  BY WriteChanges
<1>2. /\ writer[w].pc = "write" /\ writer'[w] = NoWriter /\ \A v \in Writers \ {w} : writer'[v] = writer[v]
  BY DEF Write, Release, LockInv
<1>3. CASE q.op \notin {"CreateMenu", "UpdateMenu"}
  <2>1. \A link \in refers' : link[1] \in Menus /\ link[2] \in Menus => link \in refers
    BY <1>1, <1>3, LinksAdded, Apart DEF Shaped, Linking
  <2>2. \A m \in Menus : Rooted(m, refers')
    BY <2>1, LinksDropped DEF ForestInv
  <2>3. ASSUME NEW v \in Writers, writer'[v].pc = "write", writer'[v].request.op = "UpdateMenu"
        PROVE  Detached(writer'[v].request.id, writer'[v].request.to, refers')
    <3>1. v # w /\ writer'[v] = writer[v] /\ writer[v] # NoWriter
      BY <1>2, <2>3, Markers
    <3>2. writer[v].request.id \in Menus /\ writer[v].request.to \in SUBSET Menus
      BY <2>3, <3>1 DEF LockInv, InOrder, Shaped
    <3>3. Detached(writer[v].request.id, writer[v].request.to, refers)
      BY <2>3, <3>1 DEF ForestInv
    <3> QED
      BY <2>1, <3>1, <3>2, <3>3, LinksDropped
  <2> QED
    BY <2>2, <2>3 DEF ForestInv
<1>4. CASE q.op \in {"CreateMenu", "UpdateMenu"}
  <2>1. q.id \in Menus /\ q.to \in SUBSET Menus
    BY <1>1, <1>4 DEF Shaped
  <2>2. ASSUME q.op = "UpdateMenu" PROVE \A m \in Menus : Rooted(m, refers')
    <3>1. Detached(q.id, q.to, refers)
      BY <1>2, <2>2 DEF ForestInv
    <3>2. \A link \in refers' : link[1] \in Menus /\ link[2] \in Menus =>
             \/ link \in refers /\ link[1] # q.id
             \/ link[1] = q.id /\ link[2] \in q.to
      BY <1>1, <2>2 DEF LinksAfter, UpdateMenuRow, Rewritten
    <3> QED
      BY <2>1, <3>1, <3>2, Reparented DEF ForestInv
  <2>3. ASSUME q.op = "CreateMenu" PROVE \A m \in Menus : Rooted(m, refers')
    <3>1. rows[q.id] = "unborn" /\ \A m \in q.to : rows[m] = "live"
      BY <1>1, <2>3 DEF Checked, Creating
    <3>2. \A link \in refers : link[1] \in Menus /\ link[2] \in Menus => link[1] # q.id /\ link[2] # q.id
      BY <3>1, Apart DEF ReferenceInv, ReferencesLive
    <3>3. Detached(q.id, q.to, refers)
      <4>1. Upward(Menus \ {q.id}, refers)
        BY <3>2 DEF Upward
      <4>2. q.to \subseteq Menus \ {q.id}
        BY <2>1, <3>1
      <4> QED
        BY <4>1, <4>2 DEF Detached
    <3>4. \A link \in refers' : link[1] \in Menus /\ link[2] \in Menus =>
             \/ link \in refers /\ link[1] # q.id
             \/ link[1] = q.id /\ link[2] \in q.to
      BY <1>1, <2>3, <3>2 DEF LinksAfter, InsertMenu
    <3> QED
      BY <2>1, <3>3, <3>4, Reparented DEF ForestInv
  <2>4. \A m \in Menus : Rooted(m, refers')
    BY <1>4, <2>2, <2>3
  \* No other writer is about to move a menu: this one holds their lock.
  <2>5. ASSUME NEW v \in Writers, writer'[v].pc = "write", writer'[v].request.op = "UpdateMenu"
        PROVE  FALSE
    <3>1. v # w /\ writer'[v] = writer[v] /\ writer[v] # NoWriter
      BY <1>2, <2>5, Markers
    <3>2. writer[v].locks = <<>> /\ "menu" \in Takes(writer[v].request.op) /\ "menu" \in Locks
      BY <2>5, <3>1 DEF LockInv, InOrder, Takes, Locks
    <3>3. lock["menu"] = v
      BY <3>1, <3>2 DEF LockInv, Among
    <3>4. lock["menu"] = w
      BY <1>1, <1>4, <3>2 DEF LockInv, Among, Takes
    <3> QED
      BY <3>1, <3>3, <3>4
  <2> QED
    BY <2>4, <2>5 DEF ForestInv
<1> QED
  BY <1>3, <1>4

LEMMA ForestNext == ASSUME LockInv, ReferenceInv, ForestInv, [Next]_vars PROVE ForestInv'
<1> DEFINE Moves(v) == writer'[v].pc = "write" /\ writer'[v].request.op = "UpdateMenu" =>
                         Detached(writer'[v].request.id, writer'[v].request.to, refers)
<1>1. ASSUME UNCHANGED refers, \A v \in Writers : writer'[v] = writer[v] \/ Moves(v) PROVE ForestInv'
  BY <1>1 DEF ForestInv
<1>2. CASE UNCHANGED vars
  BY <1>1, <1>2 DEF vars
<1>3. ASSUME NEW w \in Writers, Begin(w) PROVE ForestInv'
  <2>1. PICK q \in Request, locks \in Seq(Locks) : Start(w, q.op, q.id, q.to, q.flag, locks)
    BY <1>3, BeginShapes DEF BeginShape
  <2>2. /\ UNCHANGED refers /\ writer'[w].pc = "lock" /\ \A v \in Writers \ {w} : writer'[v] = writer[v]
    BY <2>1 DEF Start, LockInv, database
  <2> QED
    BY <1>1, <2>2
<1>4. ASSUME NEW w \in Writers, Acquire(w) PROVE ForestInv'
  <2>1. /\ UNCHANGED refers /\ writer[w].pc = "lock" /\ writer[w] \in Writer
        /\ writer' = [writer EXCEPT ![w].locks = Tail(@)]
    BY <1>4, Markers DEF Acquire, LockInv, database
  <2>2. writer'[w].pc = "lock" /\ \A v \in Writers \ {w} : writer'[v] = writer[v]
    BY <2>1 DEF LockInv, Writer
  <2> QED
    BY <1>1, <2>1, <2>2
<1>5. ASSUME NEW w \in Writers, Validate(w) PROVE ForestInv'
  <2>1. /\ Permitted(writer[w].request) /\ UNCHANGED refers
        /\ writer' = [writer EXCEPT ![w] =
             [writer[w] EXCEPT !.pc = "write", !.affected = Affected(writer[w].request)]]
    BY <1>5 DEF Validate, database
  <2>2. writer[w] # NoWriter /\ writer[w] \in Writer /\ Shaped(writer[w].request)
    BY <1>5, Markers DEF Validate, LockInv, InOrder
  <2>3. writer'[w].request = writer[w].request /\ \A v \in Writers \ {w} : writer'[v] = writer[v]
    BY <2>1, <2>2 DEF LockInv, Writer
  <2>4. ASSUME writer[w].request.op = "UpdateMenu"
        PROVE  Detached(writer[w].request.id, writer[w].request.to, refers)
    <3>1. writer[w].request.to \in SUBSET Menus /\ writer[w].request.id \notin Above(writer[w].request.to)
      BY <2>1, <2>2, <2>4 DEF Permitted, CreatesCycle, Shaped
    <3> QED
      BY <3>1, AboveLeast DEF Detached
  <2> QED
    BY <1>1, <2>1, <2>3, <2>4
<1>6. ASSUME NEW w \in Writers, Refuse(w) PROVE ForestInv'
  <2>1. UNCHANGED refers /\ writer'[w] = NoWriter /\ \A v \in Writers \ {w} : writer'[v] = writer[v]
    BY <1>6 DEF Refuse, Release, LockInv, database
  <2> QED
    BY <1>1, <2>1, Markers
<1>7. ASSUME NEW w \in Writers, Write(w) PROVE ForestInv'
  BY <1>7, ForestWrite
<1> QED
  BY <1>2, <1>3, <1>4, <1>5, <1>6, <1>7 DEF Next

\* In every reachable state what is referred to is there, with the exceptions
\* ReferencesLive names, and no menu is above itself, for all numbers of rows and
\* writers: menuParentCreatesCycle runs under the lock the move is written under
\* (internal/service/menu.go).
THEOREM TablesAlwaysSound == Spec => []TablesSound
<1>1. Init => LockInv /\ ReferenceInv /\ ForestInv
  BY LockInit, ReferenceInit, ForestInit
<1>2. LockInv /\ ReferenceInv /\ ForestInv /\ [Next]_vars => (LockInv /\ ReferenceInv /\ ForestInv)'
  BY LockNext, ReferenceNext, ForestNext
<1>3. ReferenceInv /\ ForestInv => TablesSound
  BY ForestRooted DEF ReferenceInv, ForestInv, TablesSound
<1> QED
  BY <1>1, <1>2, <1>3, PTL DEF Spec

-----------------------------------------------------------------------------
(* What is read of the rows.                                               *)

\* A page of users with their roles gives every user the roles it has.
LEMMA UserPage ==
    ASSUME NEW us
    PROVE  SelectUsersByIDs(us) = [u \in SelectExisting(us) |-> SelectRolesByUserID(u)]
<1>1. ASSUME NEW u \in us
      PROVE  {link[2] : link \in {l \in {k \in refers : k[1] \in us /\ k[2] \in Roles} : l[1] = u /\ rows[l[2]] = "live"}}
             = SelectRolesByUserID(u)
  BY <1>1 DEF SelectRolesByUserID, SelectExisting, Targets
<1> QED
  BY <1>1 DEF SelectUsersByIDs, SelectExisting

\* The permissions of roles, of one role after the other and of all at once.
LEMMA RolePermissions ==
    ASSUME NEW rs
    PROVE  \A p : p \in SelectMenuPermsByRoleIDs(rs) <=>
                    \E r \in rs, m \in Menus : p = <<m, revision[m]>> /\ m \in Targets(r, refers)
  BY DEF SelectMenuPermsByRoleIDs

LEMMA UserPermissions ==
    ASSUME RowsInv, NEW us, NEW u \in us
    PROVE  {row[2] : row \in {r \in SelectMenuPermsByUserIDs(us) : r[1] = u}} = SelectMenuPermsByUserID(u)
<1>1. \A link \in refers : link = <<link[1], link[2]>>
  BY DEF RowsInv, Links
<1>2. \A r, m : m \in Targets(r, refers) <=> <<r, m>> \in refers
  BY <1>1 DEF Targets
<1>3. ASSUME NEW row \in SelectMenuPermsByUserIDs(us), row[1] = u PROVE row[2] \in SelectMenuPermsByUserID(u)
  <2>1. PICK link \in refers : /\ link[1] \in us /\ link[2] \in enabled
                               /\ row \in {<<link[1], p>> : p \in SelectMenuPermsByRoleIDs({link[2]})}
    BY DEF SelectMenuPermsByUserIDs
  <2>2. link[1] = u /\ row[2] \in SelectMenuPermsByRoleIDs({link[2]})
    BY <1>3, <2>1
  <2>3. PICK m \in Menus : row[2] = <<m, revision[m]>> /\ m \in Targets(link[2], refers)
    BY <2>2, RolePermissions
  <2> QED
    BY <1>1, <1>2, <2>1, <2>2, <2>3 DEF SelectMenuPermsByUserID
<1>4. ASSUME NEW p \in SelectMenuPermsByUserID(u)
      PROVE  <<u, p>> \in SelectMenuPermsByUserIDs(us)
  <2>1. PICK m \in Menus, r \in enabled : p = <<m, revision[m]>> /\ <<u, r>> \in refers /\ <<r, m>> \in refers
    BY DEF SelectMenuPermsByUserID
  <2>2. p \in SelectMenuPermsByRoleIDs({r})
    BY <1>2, <2>1, RolePermissions
  <2>3. <<u, r>> \in {l \in refers : l[1] \in us /\ l[2] \in enabled}
    BY <2>1
  <2>4. PICK link \in {l \in refers : l[1] \in us /\ l[2] \in enabled} : link[1] = u /\ link[2] = r
    BY <2>3
  <2>5. <<u, p>> \in {<<link[1], perm>> : perm \in SelectMenuPermsByRoleIDs({link[2]})}
    BY <2>2, <2>4
  <2> QED
    BY <2>4, <2>5 DEF SelectMenuPermsByUserIDs
<1> QED
  <2>1. \A p : <<u, p>>[1] = u /\ <<u, p>>[2] = p
    OBVIOUS
  <2> QED
    BY <1>3, <1>4, <2>1

\* A login and a refresh find the same.
LEMMA SnapshotIsLogin ==
    ASSUME RowsInv
    PROVE  loadPermissionSnapshots(Users) = [u \in SelectExisting(Users) |-> GetMenuPermission(u)]
<1> DEFINE users == SelectUsersByIDs(Users)
           without == {u \in DOMAIN users : users[u] = {}}
<1>1. users = [u \in SelectExisting(Users) |-> SelectRolesByUserID(u)]
  BY UserPage
<1>2. \A u \in without :
        {row[2] : row \in {r \in SelectMenuPermsByUserIDs(without) : r[1] = u}} = SelectMenuPermsByUserID(u)
  BY UserPermissions
<1>3. ASSUME NEW u \in SelectExisting(Users)
      PROVE  (IF u \in without THEN {row[2] : row \in {r \in SelectMenuPermsByUserIDs(without) : r[1] = u}}
              ELSE SelectMenuPermsByRoleIDs(users[u] \cap enabled)) = GetMenuPermission(u)
  BY <1>1, <1>2, <1>3 DEF GetMenuPermission
<1>4. loadPermissionSnapshots(Users) =
        [u \in DOMAIN users |->
           IF u \in without THEN {row[2] : row \in {r \in SelectMenuPermsByUserIDs(without) : r[1] = u}}
           ELSE SelectMenuPermsByRoleIDs(users[u] \cap enabled)]
  BY DEF loadPermissionSnapshots
<1> QED
  BY <1>1, <1>3, <1>4

LEMMA NothingOfDeletedRoles ==
    ASSUME RowsInv, enabled \subseteq Roles, ReferencesLive, NEW u \in Users
    PROVE  GetMenuPermission(u) \subseteq SelectMenuPermsByRoleIDs(SelectRolesByUserID(u))
<1> DEFINE roles == SelectRolesByUserID(u)
<1>1. CASE roles = {}
  <2>1. ASSUME NEW m \in Menus, NEW r \in enabled, <<u, r>> \in refers, <<r, m>> \in refers PROVE FALSE
    <3>1. rows[r] = "live"
      <4>1. <<r, m>>[1] = r /\ <<r, m>>[2] = m
        OBVIOUS
      <4> QED
        BY <2>1, <4>1, Apart DEF ReferencesLive
    <3>2. r \in Targets(u, refers)
      <4>1. <<u, r>>[1] = u /\ <<u, r>>[2] = r
        OBVIOUS
      <4> QED
        BY <2>1, <4>1 DEF Targets
    <3>3. r \in roles
      BY <2>1, <3>1, <3>2 DEF SelectRolesByUserID, SelectExisting
    <3> QED
      BY <1>1, <3>3
  <2>2. SelectMenuPermsByUserID(u) = {}
    BY <2>1 DEF SelectMenuPermsByUserID
  <2> QED
    BY <1>1, <2>2 DEF GetMenuPermission
<1>2. CASE roles # {}
  BY <1>2, RolePermissions DEF GetMenuPermission
<1> QED
  BY <1>1, <1>2

\* The two pages of a role share the users that are there between them.
LEMMA PagesShareUsers ==
    ASSUME RowsInv, NEW r \in Roles
    PROVE  /\ authUserDB(r, TRUE) \cup authUserDB(r, FALSE) = SelectExisting(Users)
           /\ authUserDB(r, TRUE) \cap authUserDB(r, FALSE) = {}
<1>1. \A link \in refers : link = <<link[1], link[2]>>
  BY DEF RowsInv, Links
<1> DEFINE has(u) == Roles \cap Targets(u, refers)
<1>2. \A u, k : k \in Targets(u, refers) <=> <<u, k>> \in refers
  BY <1>1 DEF Targets
<1>3. \A x : x \in UserRoleRows <=>
        \E u \in SelectExisting(Users) : x \in {u} \X (IF has(u) = {} THEN {None} ELSE has(u))
  BY DEF UserRoleRows
<1>4. r # None
  BY KindsAssumption DEF Ids
<1>5. \A u : u \in authUserDB(r, TRUE) <=> u \in SelectExisting(Users) /\ <<u, r>> \in refers
  <2>1. ASSUME NEW u \in authUserDB(r, TRUE) PROVE u \in SelectExisting(Users) /\ <<u, r>> \in refers
    <3>1. PICK x \in UserRoleRows : x[1] = u /\ x[2] = r
      BY <2>1 DEF authUserDB
    <3>2. PICK v \in SelectExisting(Users) : x \in {v} \X (IF has(v) = {} THEN {None} ELSE has(v))
      BY <1>3, <3>1
    <3> QED
      BY <1>2, <1>4, <3>1, <3>2
  <2>2. ASSUME NEW u \in SelectExisting(Users), <<u, r>> \in refers PROVE u \in authUserDB(r, TRUE)
    <3>1. r \in has(u)
      BY <1>2, <2>2
    <3>2. <<u, r>> \in UserRoleRows
      BY <1>3, <3>1
    <3> QED
      BY <3>2 DEF authUserDB
  <2> QED
    BY <2>1, <2>2
<1>6. \A u : u \in authUserDB(r, FALSE) <=> u \in SelectExisting(Users) /\ <<u, r>> \notin refers
  <2>1. ASSUME NEW u \in authUserDB(r, FALSE) PROVE u \in SelectExisting(Users) /\ <<u, r>> \notin refers
    <3>1. PICK x \in UserRoleRows : x[1] = u /\ <<x[1], r>> \notin refers
      BY <2>1 DEF authUserDB
    <3> QED
      BY <1>3, <3>1
  <2>2. ASSUME NEW u \in SelectExisting(Users), <<u, r>> \notin refers PROVE u \in authUserDB(r, FALSE)
    <3>1. PICK k : k \in (IF has(u) = {} THEN {None} ELSE has(u))
      OBVIOUS
    <3>2. k # r
      BY <1>2, <1>4, <2>2, <3>1
    <3>3. <<u, k>> \in UserRoleRows
      BY <1>3, <3>1
    <3> QED
      BY <2>2, <3>2, <3>3 DEF authUserDB
  <2> QED
    BY <2>1, <2>2
<1> QED
  BY <1>5, <1>6

LEMMA PagesFromRows == ASSUME RowsInv, enabled \subseteq Roles, ReferencesLive PROVE PagesAgree
<1>1. ASSUME NEW u \in SelectExisting(Users)
      PROVE  {row[1] : row \in {x \in AuthRoleOfUser(u) : x[2]}} = SelectRolesByUserID(u)
  <2>1. SelectRolesByUserID(u) \subseteq SelectExisting(Roles)
    BY DEF SelectRolesByUserID, SelectExisting
  <2>2. \A x : x \in AuthRoleOfUser(u) <=>
          \E r \in SelectExisting(Roles) : x = <<r, r \in SelectRolesByUserID(u)>>
    BY DEF AuthRoleOfUser
  <2>3. ASSUME NEW x \in AuthRoleOfUser(u), x[2] PROVE x[1] \in SelectRolesByUserID(u)
    <3>1. PICK r \in SelectExisting(Roles) : x = <<r, r \in SelectRolesByUserID(u)>>
      BY <2>2
    <3>2. x[1] = r /\ x[2] = (r \in SelectRolesByUserID(u))
      BY <3>1
    <3> QED
      BY <2>3, <3>2
  <2>4. ASSUME NEW r \in SelectRolesByUserID(u) PROVE \E x \in AuthRoleOfUser(u) : x[2] /\ x[1] = r
    <3>1. <<r, r \in SelectRolesByUserID(u)>> \in AuthRoleOfUser(u)
      BY <2>1, <2>2
    <3> QED
      BY <3>1
  <2> QED
    BY <2>3, <2>4
<1>2. ASSUME NEW u \in SelectExisting(Users)
      PROVE  /\ loadPermissionSnapshots(Users)[u] = GetMenuPermission(u)
             /\ GetMenuPermission(u) \subseteq SelectMenuPermsByRoleIDs(SelectRolesByUserID(u))
  <2>1. u \in Users
    BY DEF SelectExisting
  <2> QED
    BY <2>1, SnapshotIsLogin, NothingOfDeletedRoles
<1> QED
  BY <1>1, <1>2, PagesShareUsers DEF PagesAgree

LEMMA LoginIsJoin ==
    ASSUME RowsInv, enabled \subseteq Roles, ReferencesLive, NEW u \in Users
    PROVE  GetMenuPermission(u) = SelectMenuPermsByUserID(u)
<1>1. \A link \in refers : link = <<link[1], link[2]>>
  BY DEF RowsInv, Links
<1>2. \A r, m : m \in Targets(r, refers) <=> <<r, m>> \in refers
  BY <1>1 DEF Targets
<1>3. \A r \in Roles, m \in Menus : <<r, m>> \in refers => rows[r] = "live"
  <2>1. \A r, m : <<r, m>>[1] = r /\ <<r, m>>[2] = m
    OBVIOUS
  <2> QED
    BY <2>1, Apart DEF ReferencesLive
<1>4. CASE SelectRolesByUserID(u) # {}
  <2>1. \A r : r \in SelectRolesByUserID(u) \cap enabled <=> r \in enabled /\ <<u, r>> \in refers /\ rows[r] = "live"
    BY <1>2 DEF SelectRolesByUserID, SelectExisting
  <2>2. \A p : p \in SelectMenuPermsByRoleIDs(SelectRolesByUserID(u) \cap enabled) <=>
                \E r \in enabled, m \in Menus : p = <<m, revision[m]>> /\ <<u, r>> \in refers /\ <<r, m>> \in refers
    <3>1. \A p : p \in SelectMenuPermsByRoleIDs(SelectRolesByUserID(u) \cap enabled) <=>
                  \E r \in SelectRolesByUserID(u) \cap enabled, m \in Menus : p = <<m, revision[m]>> /\ m \in Targets(r, refers)
      BY RolePermissions
    <3>2. \A r, m : m \in Menus /\ r \in SelectRolesByUserID(u) \cap enabled /\ m \in Targets(r, refers) <=>
                    m \in Menus /\ r \in enabled /\ <<u, r>> \in refers /\ <<r, m>> \in refers
      BY <1>2, <1>3, <2>1
    <3>3. ASSUME NEW p, NEW r \in SelectRolesByUserID(u) \cap enabled, NEW m \in Menus,
                 p = <<m, revision[m]>>, m \in Targets(r, refers)
          PROVE  \E k \in enabled, n \in Menus : p = <<n, revision[n]>> /\ <<u, k>> \in refers /\ <<k, n>> \in refers
      BY <3>2, <3>3
    <3>4. ASSUME NEW p, NEW r \in enabled, NEW m \in Menus,
                 p = <<m, revision[m]>>, <<u, r>> \in refers, <<r, m>> \in refers
          PROVE  p \in SelectMenuPermsByRoleIDs(SelectRolesByUserID(u) \cap enabled)
      BY <3>1, <3>2, <3>4
    <3> QED
      BY <3>1, <3>3, <3>4
  <2>3. \A p : p \in SelectMenuPermsByUserID(u) <=>
                \E r \in enabled, m \in Menus : p = <<m, revision[m]>> /\ <<u, r>> \in refers /\ <<r, m>> \in refers
    BY DEF SelectMenuPermsByUserID
  <2> QED
    BY <1>4, <2>2, <2>3 DEF GetMenuPermission
<1> QED
  BY <1>4 DEF GetMenuPermission

\* So in a sound state a login and a refresh read one and the same join.
Sound == RowsInv /\ enabled \subseteq Roles /\ ReferencesLive
OneJoin ==
    /\ \A u \in Users : GetMenuPermission(u) = SelectMenuPermsByUserID(u)
    /\ loadPermissionSnapshots(Users) = [u \in SelectExisting(Users) |-> GetMenuPermission(u)]

LEMMA ReadAlike == Sound => OneJoin
  BY LoginIsJoin, SnapshotIsLogin DEF Sound, OneJoin

LEMMA ReadAlikeNext == Sound' => OneJoin'
  BY ReadAlike, PTL

-----------------------------------------------------------------------------
(* The sessions.                                                           *)

LEMMA LinksLost ==
    ASSUME NEW q, NEW link \in refers \ LinksAfter(q)
    PROVE  \/ q.op \in {"UpdateUser", "ImportUser", "AssignUserRoles", "UpdateRole", "UpdateMenu"} /\ link[1] = q.id
           \/ q.op = "AuthDataScope" /\ link[2] \in Depts
           \/ q.op = "CancelAuthUser" /\ link[1] \in q.to
           \/ q.op \in {"DeleteUsers", "DeleteRoles", "DeleteMenu"} /\ link[1] \in q.to
<1>1. CASE q.op \in {"UpdateUser", "ImportUser", "AssignUserRoles", "UpdateRole", "UpdateMenu", "AuthDataScope"}
  BY <1>1 DEF LinksAfter, UpdateUserRow, UpdateUserBasic, ReplaceUserRoles, UpdateRoleRow, AuthDataScopeRows,
              UpdateMenuRow, Rewritten
<1>2. CASE q.op \in {"CancelAuthUser", "DeleteUsers", "DeleteRoles", "DeleteMenu"}
  BY <1>2 DEF LinksAfter, DeleteUserRole, DeleteUserByIDs, DeleteRoleByIDs, DeleteMenuByID, Without
<1>3. CASE q.op \in {"CreateUser", "GrantAuthUser", "CreateRole", "CreateMenu"}
  BY <1>3 DEF LinksAfter, InsertUser, InsertUserRole, InsertRole, InsertMenu
<1>4. CASE q.op \notin {"UpdateUser", "ImportUser", "AssignUserRoles", "UpdateRole", "UpdateMenu", "AuthDataScope",
                        "CancelAuthUser", "DeleteUsers", "DeleteRoles", "DeleteMenu",
                        "CreateUser", "GrantAuthUser", "CreateRole", "CreateMenu"}
  BY <1>4 DEF LinksAfter
<1> QED
  BY <1>1, <1>2, <1>3, <1>4

\* Whom a writer that is about to write has listed: all whose roles it changes
\* and, whatever happened since it looked, all who have the role it changes.
Listed(w) ==
    LET q == writer[w].request
        listed == writer[w].affected
    IN  /\ q.op \in {"UpdateUser", "ImportUser"} /\ q.flag => q.id \in listed
        /\ q.op = "AssignUserRoles" => q.id \in listed
        /\ q.op \in {"GrantAuthUser", "CancelAuthUser"} => q.to \subseteq listed
        /\ q.op \in {"UpdateRole", "ChangeRoleStatus"} =>
             \A link \in refers : link[2] = q.id /\ link[1] \in Users => link[1] \in listed

\* Nothing points at a row that is not there yet.
BornInv ==
    /\ \A link \in refers : rows[link[2]] # "unborn"
    /\ \A w \in Writers : writer[w] # NoWriter /\ writer[w].request.op = "GrantAuthUser" =>
         rows[writer[w].request.id] # "unborn"

SessionTypes ==
    /\ enabled \subseteq Roles
    /\ revision \in [Menus -> Nat]
    /\ session \in [Users -> (SUBSET (Menus \X Nat)) \cup {None}]
    /\ writes \in Nat
    /\ unlisted \subseteq Users

SessionInv ==
    /\ SessionTypes
    /\ BornInv
    /\ \A w \in Writers : writer[w].pc = "write" => Listed(w)
    /\ \A u \in Users : session[u] # None => rows[u] = "live"
    /\ StaleOnlyUnlisted

\* A user that has a role is there.
LEMMA UsersOfRoles ==
    ASSUME ReferencesLive, NEW link \in refers, link[1] \in Users, link[2] \in Roles
    PROVE  rows[link[1]] = "live"
  BY Apart DEF ReferencesLive

LEMMA AffectedListed ==
    ASSUME NEW q, Shaped(q), ReferencesLive
    PROVE  /\ q.op \in {"UpdateUser", "ImportUser"} /\ q.flag => q.id \in Affected(q)
           /\ q.op = "AssignUserRoles" => q.id \in Affected(q)
           /\ q.op \in {"GrantAuthUser", "CancelAuthUser"} => q.to \subseteq Affected(q)
           /\ q.op \in {"UpdateRole", "ChangeRoleStatus"} =>
                \A link \in refers : link[2] = q.id /\ link[1] \in Users => link[1] \in Affected(q)
<1>1. \A u \in Users :
        /\ q.op \in {"UpdateUser", "ImportUser"} /\ q.flag /\ u = q.id => u \in Affected(q)
        /\ q.op = "AssignUserRoles" /\ u = q.id => u \in Affected(q)
        /\ q.op \in {"GrantAuthUser", "CancelAuthUser"} /\ u \in q.to => u \in Affected(q)
        /\ q.op \in {"UpdateRole", "ChangeRoleStatus"} /\ u \in SelectUserIDsByRoleID(q.id) => u \in Affected(q)
  BY DEF Affected
<1>2. ASSUME q.op \in {"UpdateRole", "ChangeRoleStatus"}, NEW link \in refers, link[2] = q.id, link[1] \in Users
      PROVE  link[1] \in SelectUserIDsByRoleID(q.id)
  <2>1. q.id \in Roles
    BY <1>2 DEF Shaped
  <2>2. rows[link[1]] = "live"
    BY <1>2, <2>1, UsersOfRoles
  <2> QED
    BY <1>2, <2>2 DEF SelectUserIDsByRoleID, SelectExisting, Pointing
<1> QED
  BY <1>1, <1>2 DEF Shaped

\* A write changes the permissions of nobody but those it revokes, those it has
\* listed and, when it changes a menu, those that have a role of that menu.
LEMMA PermissionKept ==
    ASSUME LockInv, ReferenceInv, SessionInv, NEW w \in Writers, Write(w),
           NEW u \in Users, session[u] # None, u \notin Revoked(writer[w].request), u \notin writer[w].affected,
           ~(writer[w].request.op = "UpdateMenu" /\ writer[w].request.flag
               /\ u \in Pointing(Pointing({writer[w].request.id})))
    PROVE  SelectMenuPermsByUserID(u)' = SelectMenuPermsByUserID(u)
<1> DEFINE q == writer[w].request
<1>1. /\ Shaped(q) /\ Checked(q) /\ refers' = LinksAfter(q)
  BY WriteChanges
<1>2. /\ Listed(w) /\ rows[u] = "live"
      /\ enabled \subseteq Roles
      /\ \A link \in refers : rows[link[2]] # "unborn"
      /\ refers \subseteq Links
  BY DEF Write, SessionInv, SessionTypes, BornInv, ReferenceInv, RowsInv
<1>3. \A x, y : <<x, y>>[1] = x /\ <<x, y>>[2] = y
  OBVIOUS
<1>4. q.op \in {"UpdateUser", "ImportUser", "AssignUserRoles", "CreateUser"} => u # q.id
  BY <1>1, <1>2 DEF Listed, Revoked, Checked, Creating
<1>5. q.op \in {"DeleteUsers", "GrantAuthUser", "CancelAuthUser"} => u \notin q.to
  BY <1>2 DEF Listed, Revoked
<1>6. ASSUME NEW r \in Roles PROVE <<u, r>> \in refers' <=> <<u, r>> \in refers
  <2>1. ASSUME <<u, r>> \in refers', <<u, r>> \notin refers PROVE FALSE
    <3>1. \/ q.op \in Linking /\ u = q.id
          \/ q.op = "GrantAuthUser" /\ u \in q.to
      BY <1>1, <1>3, <2>1, LinksAdded
    <3> QED
      BY <1>1, <1>4, <1>5, <3>1, Apart DEF Linking, Shaped
  <2>2. ASSUME <<u, r>> \in refers, <<u, r>> \notin refers' PROVE FALSE
    <3>1. \/ q.op \in {"UpdateUser", "ImportUser", "AssignUserRoles", "UpdateRole", "UpdateMenu"} /\ u = q.id
          \/ q.op = "AuthDataScope" /\ r \in Depts
          \/ q.op = "CancelAuthUser" /\ u \in q.to
          \/ q.op \in {"DeleteUsers", "DeleteRoles", "DeleteMenu"} /\ u \in q.to
      BY <1>1, <1>3, <2>2, LinksLost
    <3> QED
      BY <1>1, <1>4, <1>5, <3>1, Apart DEF Shaped
  <2> QED
    BY <2>1, <2>2
<1>7. ASSUME NEW r \in Roles, <<u, r>> \in refers
      PROVE  /\ q.op \in {"CreateRole", "UpdateRole", "ChangeRoleStatus"} => r # q.id
             /\ q.op = "DeleteRoles" => r \notin q.to
  <2>1. q.op = "CreateRole" => r # q.id
    BY <1>1, <1>2, <1>3, <1>7 DEF Checked, Creating
  <2>2. q.op \in {"UpdateRole", "ChangeRoleStatus"} => r # q.id
    BY <1>2, <1>3, <1>7 DEF Listed
  <2>3. q.op = "DeleteRoles" => r \notin q.to
    BY <1>1, <1>3, <1>7 DEF Checked
  <2> QED
    BY <2>1, <2>2, <2>3
<1>8. ASSUME NEW r \in Roles, <<u, r>> \in refers PROVE r \in enabled' <=> r \in enabled
  BY <1>7, <1>8 DEF Write, StatusAfter
<1>9. ASSUME NEW r \in Roles, <<u, r>> \in refers, NEW m \in Menus
      PROVE  <<r, m>> \in refers' <=> <<r, m>> \in refers
  <2>1. ASSUME <<r, m>> \in refers', <<r, m>> \notin refers PROVE FALSE
    <3>1. \/ q.op \in Linking /\ r = q.id /\ m \in q.to
          \/ q.op = "GrantAuthUser" /\ r \in q.to /\ m = q.id
      BY <1>1, <1>3, <2>1, LinksAdded
    <3> QED
      BY <1>1, <1>7, <1>9, <3>1, Apart DEF Linking, Shaped
  <2>2. ASSUME <<r, m>> \in refers, <<r, m>> \notin refers' PROVE FALSE
    <3>1. \/ q.op \in {"UpdateUser", "ImportUser", "AssignUserRoles", "UpdateRole", "UpdateMenu"} /\ r = q.id
          \/ q.op = "AuthDataScope" /\ m \in Depts
          \/ q.op = "CancelAuthUser" /\ r \in q.to
          \/ q.op \in {"DeleteUsers", "DeleteRoles", "DeleteMenu"} /\ r \in q.to
      BY <1>1, <1>3, <2>2, LinksLost
    <3> QED
      BY <1>1, <1>7, <1>9, <3>1, Apart DEF Shaped
  <2> QED
    BY <2>1, <2>2
<1>10. ASSUME NEW r \in Roles, <<u, r>> \in refers, NEW m \in Menus, <<r, m>> \in refers
       PROVE  revision'[m] = revision[m]
  <2>1. u \in Pointing(Pointing({m}))
    <3>1. r \in Pointing({m})
      BY <1>3, <1>10 DEF Pointing
    <3> QED
      BY <1>3, <1>10, <3>1 DEF Pointing
  <2>2. ~(q.op = "UpdateMenu" /\ q.flag /\ m = q.id)
    BY <2>1
  <2>3. revision' = IF q.op = "UpdateMenu" /\ q.flag THEN [revision EXCEPT ![q.id] = @ + 1] ELSE revision
    BY DEF Write
  <2> QED
    BY <2>2, <2>3 DEF SessionInv, SessionTypes
<1>11. enabled' \subseteq Roles
  BY <1>1, <1>2 DEF Write, StatusAfter, Shaped
<1>12. \A m \in Menus : (\E r \in enabled' : <<u, r>> \in refers' /\ <<r, m>> \in refers')
                         <=> (\E r \in enabled : <<u, r>> \in refers /\ <<r, m>> \in refers)
  BY <1>2, <1>6, <1>8, <1>9, <1>11
<1>13. \A m \in Menus : (\E r \in enabled : <<u, r>> \in refers /\ <<r, m>> \in refers) => revision'[m] = revision[m]
  BY <1>2, <1>10
<1> QED
  BY <1>12, <1>13 DEF SelectMenuPermsByUserID

LEMMA SessionInit == ASSUME Init PROVE SessionInv
<1>1. PICK born \in Beginnings :
        /\ rows = [id \in Ids |-> IF id \in born THEN "live" ELSE "unborn"]
        /\ enabled = Roles \cap born
        /\ refers \subseteq born \X born
  BY DEF Init
<1>2. born \subseteq Ids
  BY KindsAssumption
<1>3. Sound
  BY <1>1, ReferenceInit DEF Sound, ReferenceInv
<1>4. revision \in [Menus -> Nat]
  BY DEF Init
<1>5. \A u \in Users : GetMenuPermission(u) \in SUBSET (Menus \X Nat)
  BY <1>3, <1>4, ReadAlike DEF OneJoin, SelectMenuPermsByUserID
<1>6. session \in [Users -> (SUBSET (Menus \X Nat)) \cup {None}]
  <2>1. session = [u \in Users |-> IF rows[u] = "live" THEN GetMenuPermission(u) ELSE None]
    BY DEF Init
  <2>2. \A u \in Users :
          (IF rows[u] = "live" THEN GetMenuPermission(u) ELSE None) \in (SUBSET (Menus \X Nat)) \cup {None}
    BY <1>5
  <2> QED
    BY <2>1, <2>2
<1>7. SessionTypes
  BY <1>1, <1>4, <1>6 DEF Init, SessionTypes
<1>8. BornInv
  BY <1>1, <1>2, Markers DEF Init, BornInv
<1>9. \A w \in Writers : writer[w].pc # "write"
  BY Markers DEF Init
<1>10. (\A u \in Users : session[u] # None => rows[u] = "live") /\ StaleOnlyUnlisted
  BY DEF Init, StaleOnlyUnlisted
<1> QED
  BY <1>7, <1>8, <1>9, <1>10 DEF SessionInv

LEMMA SessionWrite ==
    ASSUME LockInv, LockInv', ReferenceInv, ReferenceInv', SessionInv, NEW w \in Writers, Write(w)
    PROVE  SessionInv'
<1> DEFINE q == writer[w].request
           listed == writer[w].affected
<1>1. /\ Shaped(q) /\ Checked(q) /\ refers' = LinksAfter(q) /\ writer[w] # NoWriter
      /\ \A id \in Ids : rows'[id] = "unborn" => rows[id] = "unborn"
      /\ \A id \in Ids : rows[id] = "live" => rows'[id] = "live" \/ (q.op \in Deleting /\ id \in q.to)
  BY WriteChanges
<1>2. /\ enabled' = StatusAfter(q)
      /\ revision' = IF q.op = "UpdateMenu" /\ q.flag THEN [revision EXCEPT ![q.id] = @ + 1] ELSE revision
      /\ session' = [u \in Users |->
            IF session[u] = None \/ u \in Revoked(q) THEN None
            ELSE IF u \notin listed THEN session[u]
            ELSE IF u \in DOMAIN loadPermissionSnapshots(Users)' THEN loadPermissionSnapshots(Users)'[u] ELSE None]
      /\ unlisted' = (unlisted \ listed) \cup
            {u \in Users \ listed : q.op = "UpdateMenu" /\ q.flag /\ u \in Pointing(Pointing({q.id}))}
      /\ writes' = writes
      /\ writer' = [writer EXCEPT ![w] = NoWriter]
  BY DEF Write, Release
<1>3. enabled' \subseteq Roles /\ revision' \in [Menus -> Nat]
  BY <1>1, <1>2 DEF StatusAfter, Shaped, SessionInv, SessionTypes
<1>4. OneJoin'
  BY <1>3, ReadAlikeNext DEF Sound, ReferenceInv
<1>5. \A u \in Users : GetMenuPermission(u)' \in SUBSET (Menus \X Nat)
  BY <1>3, <1>4 DEF OneJoin, SelectMenuPermsByUserID
<1>6. ASSUME NEW u \in Users, session'[u] # None
      PROVE  /\ session[u] # None /\ u \notin Revoked(q) /\ rows'[u] = "live"
             /\ u \notin listed => session'[u] = session[u]
             /\ u \in listed => session'[u] = GetMenuPermission(u)'
  <2>1. session[u] # None /\ u \notin Revoked(q)
    BY <1>2, <1>6
  <2>2. rows[u] = "live"
    BY <2>1 DEF SessionInv
  <2>3. ~(q.op \in Deleting /\ u \in q.to)
    BY <1>1, <2>1, Apart DEF Revoked, Deleting, Shaped
  <2>4. rows'[u] = "live"
    BY <1>1, <2>2, <2>3 DEF Ids
  <2>5. u \notin listed => session'[u] = session[u]
    BY <1>2, <2>1
  <2>6. u \in listed => session'[u] = GetMenuPermission(u)'
    BY <1>2, <1>4, <1>6, <2>1 DEF OneJoin
  <2> QED
    BY <2>1, <2>4, <2>5, <2>6
<1>7. SessionTypes'
  <2>1. ASSUME NEW u \in Users PROVE session'[u] \in (SUBSET (Menus \X Nat)) \cup {None}
    <3>1. CASE session'[u] = session[u]
      BY <3>1 DEF SessionInv, SessionTypes
    <3>2. CASE session'[u] = GetMenuPermission(u)'
      BY <1>5, <3>2
    <3> QED
      BY <1>6, <3>1, <3>2
  <2>2. session' \in [Users -> (SUBSET (Menus \X Nat)) \cup {None}]
    BY <1>2, <2>1
  <2>3. writes' \in Nat /\ unlisted' \subseteq Users
    BY <1>2 DEF SessionInv, SessionTypes
  <2> QED
    BY <1>3, <2>2, <2>3 DEF SessionTypes
<1>8. StaleOnlyUnlisted'
  <2>1. ASSUME NEW u \in Users, u \notin unlisted', session'[u] # None PROVE session'[u] = GetMenuPermission(u)'
    <3>1. CASE u \in listed
      BY <1>6, <2>1, <3>1
    <3>2. CASE u \notin listed
      <4>1. u \notin unlisted /\ ~(q.op = "UpdateMenu" /\ q.flag /\ u \in Pointing(Pointing({q.id})))
        BY <1>2, <2>1, <3>2
      <4>2. session[u] # None /\ u \notin Revoked(q) /\ session'[u] = session[u]
        BY <1>6, <2>1, <3>2
      <4>3. session[u] = GetMenuPermission(u)
        BY <4>1, <4>2 DEF SessionInv, StaleOnlyUnlisted
      <4>4. GetMenuPermission(u) = SelectMenuPermsByUserID(u)
        BY LoginIsJoin DEF ReferenceInv, SessionInv, SessionTypes
      <4>5. SelectMenuPermsByUserID(u)' = SelectMenuPermsByUserID(u)
        BY <3>2, <4>1, <4>2, PermissionKept
      <4> QED
        BY <1>4, <4>2, <4>3, <4>4, <4>5 DEF OneJoin
    <3> QED
      BY <3>1, <3>2
  <2> QED
    BY <2>1 DEF StaleOnlyUnlisted
<1>9. BornInv'
  <2>1. ASSUME NEW link \in refers' PROVE rows'[link[2]] # "unborn"
    <3>1. link \in Links /\ link[2] \in Ids
      BY DEF ReferenceInv, RowsInv, Links, Ids, UserLinks
    <3>2. rows[link[2]] # "unborn"
      <4>1. CASE link \in refers
        BY <4>1 DEF SessionInv, BornInv
      <4>2. CASE link \notin refers /\ q.op \in Linking /\ link[2] \in q.to
        BY <1>1, <4>2 DEF Checked, Linking
      <4>3. CASE q.op = "GrantAuthUser" /\ link[2] = q.id
        BY <1>1, <4>3 DEF SessionInv, BornInv
      <4> QED
        BY <1>1, <4>1, <4>2, <4>3, LinksAdded
    <3> QED
      BY <1>1, <3>1, <3>2
  <2>2. ASSUME NEW v \in Writers, writer'[v] # NoWriter, writer'[v].request.op = "GrantAuthUser"
        PROVE  rows'[writer'[v].request.id] # "unborn"
    <3>1. v # w /\ writer'[v] = writer[v] /\ writer[v] # NoWriter
      BY <1>2, <2>2 DEF LockInv
    <3>2. writer[v].request.id \in Ids
      BY <2>2, <3>1 DEF LockInv, InOrder, Shaped, Ids
    <3> QED
      BY <1>1, <2>2, <3>1, <3>2 DEF SessionInv, BornInv
  <2> QED
    BY <2>1, <2>2 DEF BornInv
<1>10. ASSUME NEW v \in Writers, writer'[v].pc = "write" PROVE Listed(v)'
  <2>1. v # w /\ writer'[v] = writer[v] /\ writer[v].pc = "write"
    BY <1>2, <1>10, Markers DEF LockInv
  <2>2. writer[v] # NoWriter /\ Shaped(writer[v].request) /\ writer[v].locks = <<>> /\ Listed(v)
    BY <2>1, Markers DEF LockInv, InOrder, SessionInv
  <2>3. ASSUME writer[v].request.op \in {"UpdateRole", "ChangeRoleStatus"},
               NEW link \in refers', link[2] = writer[v].request.id, link[1] \in Users
        PROVE  link[1] \in writer[v].affected
    <3>1. lock["role"] = v
      <4>1. "role" \in Takes(writer[v].request.op)
        BY <2>3 DEF Takes
      <4> QED
        BY <2>2, <4>1 DEF LockInv, Among, Locks
    <3>2. "role" \in Locks \ Takes(q.op)
      <4>1. writer[w].locks = <<>>
        BY WriteChanges
      <4> QED
        BY <1>1, <2>1, <3>1, <4>1 DEF LockInv, Among, Locks
    <3>3. link[2] \in Kind("role")
      BY <2>2, <2>3 DEF Shaped, Kind
    <3>4. link \in refers
      BY <2>3, <3>2, <3>3, WriteRespects
    <3> QED
      BY <2>2, <2>3, <3>4 DEF Listed
  <2> QED
    BY <2>1, <2>2, <2>3 DEF Listed
<1>11. \A u \in Users : session'[u] # None => rows'[u] = "live"
  BY <1>6
<1> QED
  BY <1>7, <1>8, <1>9, <1>10, <1>11 DEF SessionInv

\* A step that leaves the tables and the sessions alone.
LEMMA SessionKept ==
    ASSUME ReferenceInv, ReferenceInv', SessionInv,
           UNCHANGED <<database, session, unlisted>>, writes' \in Nat,
           \A w \in Writers :
             /\ writer'[w] # NoWriter /\ writer'[w].request.op = "GrantAuthUser" =>
                  rows[writer'[w].request.id] # "unborn"
             /\ writer'[w].pc = "write" => Listed(w)'
    PROVE  SessionInv'
<1>1. SessionTypes' /\ BornInv' /\ \A u \in Users : session'[u] # None => rows'[u] = "live"
  BY DEF database, SessionInv, SessionTypes, BornInv
<1>2. StaleOnlyUnlisted'
  <2>1. OneJoin /\ OneJoin'
    BY <1>1, ReadAlike, ReadAlikeNext DEF Sound, ReferenceInv, SessionInv, SessionTypes
  <2>2. \A u \in Users : SelectMenuPermsByUserID(u)' = SelectMenuPermsByUserID(u)
    BY DEF SelectMenuPermsByUserID, database
  <2> QED
    BY <2>1, <2>2 DEF OneJoin, SessionInv, StaleOnlyUnlisted
<1> QED
  BY <1>1, <1>2 DEF SessionInv

LEMMA SessionNext ==
    ASSUME LockInv, LockInv', ReferenceInv, ReferenceInv', SessionInv, [Next]_vars PROVE SessionInv'
<1> DEFINE Asks(w) == writer'[w] # NoWriter /\ writer'[w].request.op = "GrantAuthUser" =>
                        rows[writer'[w].request.id] # "unborn"
<1>1. \A w \in Writers : UNCHANGED database /\ writer'[w] = writer[w] =>
                           Asks(w) /\ (writer'[w].pc = "write" => Listed(w)')
  BY DEF SessionInv, BornInv, Listed, database
<1>2. CASE UNCHANGED vars
  BY <1>1, <1>2, SessionKept DEF vars, database, SessionInv, SessionTypes
<1>3. ASSUME NEW w \in Writers, Begin(w) PROVE SessionInv'
  <2>1. PICK q \in Request, locks \in Seq(Locks) :
          /\ Start(w, q.op, q.id, q.to, q.flag, locks)
          /\ q = [op |-> q.op, id |-> q.id, to |-> q.to, flag |-> q.flag]
    BY <1>3, BeginShapes DEF BeginShape
  <2>2. /\ UNCHANGED <<database, session, unlisted>> /\ writes' = writes + 1
        /\ q.op \notin Creating \cup Deleting \cup {"ImportUser"} => rows[q.id] # "unborn"
        /\ writer' = [writer EXCEPT ![w] = [pc |-> "lock", request |-> q, locks |-> locks, affected |-> {}]]
    BY <2>1 DEF Start
  <2>3. /\ writer'[w] = [pc |-> "lock", request |-> q, locks |-> locks, affected |-> {}]
        /\ \A v \in Writers \ {w} : writer'[v] = writer[v]
    BY <2>2 DEF LockInv
  <2>4. Asks(w) /\ writer'[w].pc # "write"
    BY <2>2, <2>3 DEF Creating, Deleting
  <2>5. writes' \in Nat
    BY <2>2 DEF SessionInv, SessionTypes
  <2> QED
    BY <1>1, <2>2, <2>3, <2>4, <2>5, SessionKept
<1>4. ASSUME NEW w \in Writers, Acquire(w) PROVE SessionInv'
  <2>1. /\ UNCHANGED <<database, session, unlisted>> /\ writes' = writes
        /\ writer' = [writer EXCEPT ![w].locks = Tail(writer[w].locks)] /\ writer[w].pc = "lock"
    BY <1>4 DEF Acquire
  <2>2. writer[w] # NoWriter /\ writer[w] \in Writer
    BY <2>1, Markers DEF LockInv
  <2>3. /\ writer'[w].pc # "write" /\ writer'[w].request = writer[w].request
        /\ \A v \in Writers \ {w} : writer'[v] = writer[v]
    BY <2>1, <2>2 DEF LockInv, Writer
  <2>4. Asks(w)
    BY <2>2, <2>3 DEF SessionInv, BornInv
  <2>5. writes' \in Nat
    BY <2>1 DEF SessionInv, SessionTypes
  <2> QED
    BY <1>1, <2>1, <2>3, <2>4, <2>5, SessionKept
<1>5. ASSUME NEW w \in Writers, Validate(w) PROVE SessionInv'
  <2>1. /\ UNCHANGED <<database, session, unlisted>> /\ writes' = writes
        /\ writer' = [writer EXCEPT ![w] =
             [writer[w] EXCEPT !.pc = "write", !.affected = Affected(writer[w].request)]]
        /\ writer[w].pc = "lock"
    BY <1>5 DEF Validate
  <2>2. writer[w] # NoWriter /\ writer[w] \in Writer /\ Shaped(writer[w].request)
    BY <2>1, Markers DEF LockInv, InOrder
  <2>3. /\ writer'[w].request = writer[w].request /\ writer'[w].affected = Affected(writer[w].request)
        /\ \A v \in Writers \ {w} : writer'[v] = writer[v]
    BY <2>1, <2>2 DEF LockInv, Writer
  <2>4. Listed(w)'
    BY <2>1, <2>2, <2>3, AffectedListed DEF Listed, ReferenceInv, database
  <2>5. Asks(w)
    BY <2>2, <2>3 DEF SessionInv, BornInv
  <2>6. writes' \in Nat
    BY <2>1 DEF SessionInv, SessionTypes
  <2> QED
    BY <1>1, <2>1, <2>3, <2>4, <2>5, <2>6, SessionKept
<1>6. ASSUME NEW w \in Writers, Refuse(w) PROVE SessionInv'
  <2>1. /\ UNCHANGED <<database, session, unlisted>> /\ writes' = writes
        /\ writer'[w] = NoWriter /\ \A v \in Writers \ {w} : writer'[v] = writer[v]
    BY <1>6 DEF Refuse, Release, LockInv
  <2>2. Asks(w) /\ writer'[w].pc # "write"
    BY <2>1, Markers
  <2>3. writes' \in Nat
    BY <2>1 DEF SessionInv, SessionTypes
  <2> QED
    BY <1>1, <2>1, <2>2, <2>3, SessionKept
<1>7. ASSUME NEW w \in Writers, Write(w) PROVE SessionInv'
  BY <1>7, SessionWrite
<1> QED
  BY <1>2, <1>3, <1>4, <1>5, <1>6, <1>7 DEF Next

-----------------------------------------------------------------------------
LEMMA Always == Spec => [](LockInv /\ ReferenceInv /\ SessionInv)
<1>1. Init => LockInv /\ ReferenceInv /\ SessionInv
  BY LockInit, ReferenceInit, SessionInit
<1>2. LockInv /\ ReferenceInv /\ SessionInv /\ [Next]_vars => (LockInv /\ ReferenceInv /\ SessionInv)'
  BY LockNext, ReferenceNext, SessionNext
<1> QED
  BY <1>1, <1>2, PTL DEF Spec

\* Type correctness: among others, a lock that is held has a writer that works.
THEOREM TypeCorrect == Spec => []TypeOK
<1>1. LockInv /\ ReferenceInv /\ SessionInv => TypeOK
  <2> SUFFICES ASSUME LockInv, ReferenceInv, SessionInv PROVE TypeOK
    OBVIOUS
  <2>1. refers \subseteq Ids \X Ids
    BY DEF ReferenceInv, RowsInv, Links, Ids, UserLinks
  <2>2. \A l \in Locks : lock[l] # None => writer[lock[l]] # NoWriter
    BY DEF LockInv
  <2> QED
    BY <2>1, <2>2 DEF TypeOK, LockInv, ReferenceInv, RowsInv, SessionInv, SessionTypes
<1> QED
  BY <1>1, Always, PTL

\* A permission change reaches every session it concerns (CONVENTIONS.md:413),
\* but those of users that were given a role of a menu between UpdateMenu's look
\* at its users and its commit; no other list of affected users can be outrun.
THEOREM OnlyUnlistedStale == Spec => []StaleOnlyUnlisted
<1>1. SessionInv => StaleOnlyUnlisted
  BY DEF SessionInv
<1> QED
  BY <1>1, Always, PTL

\* The pages of a user and of a role, a login and a refresh agree in every
\* reachable state (internal/repository/user.go:347).
THEOREM ReadersAgree == Spec => []PagesAgree
<1>1. ReferenceInv /\ SessionInv => PagesAgree
  BY PagesFromRows DEF ReferenceInv, SessionInv, SessionTypes
<1> QED
  BY <1>1, Always, PTL

=============================================================================
