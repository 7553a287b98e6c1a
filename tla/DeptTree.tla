------------------------------- MODULE DeptTree -------------------------------
(***************************************************************************)
(* The departments (internal/service/dept.go, repository/dept.go): a tree  *)
(* whose links are stored twice, as parent_id and as the path ancestors    *)
(* that every query of a data scope relies on.  Each writer holds          *)
(* deptWriteMu and writes in one transaction, so an operation is one step; *)
(* a refused or failed one changes nothing.  Names, their uniqueness and   *)
(* the order among siblings are left out.                                  *)
(*                                                                         *)
(* Two users write: the administrator, and an operator whose roles         *)
(* restrict what it sees.                                                  *)
(***************************************************************************)
EXTENDS DataScope, FiniteSets

CONSTANTS
    Operators,  \* users, one of whom is the operator
    Statuses    \* what requests give as status, which nothing validates

VARIABLES
    state,      \* of a department: "unborn", "live" or "deleted" (del_flag)
    parent,     \* parent_id
    status,     \* "normal", "disabled" or "other", which is neither
    operator

treeVars == <<state, parent, ancestors, status, operator>>

Root == CHOOSE d \in Depts : TRUE
Administrator == [admin |-> TRUE, dept |-> Top, roles |-> {}]
Live(d) == state[d] = "live"
Normal(d) == status[d] = "normal"

ASSUME OperatorsAssumption == Operators \subseteq User
ASSUME StatusesAssumption == Statuses \subseteq {"normal", "disabled", "other"}
ASSUME TopAssumption == Top \notin Depts /\ Depts # {} /\ IsFiniteSet(Depts)

\* checkDeptIDs and CheckDeptDataScope; SelectDeptByID reads the live ones.
MayUse(user, d) == Live(d) /\ d \in Visible(user)

CreateDept(user, d, p, s) ==
    /\ state[d] = "unborn"
    /\ MayUse(user, p) /\ Normal(p)
    /\ state' = [state EXCEPT ![d] = "live"]
    /\ parent' = [parent EXCEPT ![d] = p]
    /\ ancestors' = [ancestors EXCEPT ![d] = Append(ancestors[p], p)]
    /\ status' = [status EXCEPT ![d] = s]
    /\ UNCHANGED operator

\* Mutant: only the children are found.
ChildrenRebuilt(d, path, e) == IF parent[e] = d THEN Append(path, d) ELSE ancestors[e]

\* rebuildChildrenAncestors: in the path of a descendant, deleted ones
\* included, the old path of d is replaced by the new one.
Rebuilt(d, path, e) ==
    IF FindInSet(d, ancestors[e])
    THEN path \o SubSeq(ancestors[e], Len(ancestors[d]) + 1, Len(ancestors[e]))
    ELSE ancestors[e]

\* Mutant: only the department itself is enabled.
EnabledAlone(path) == {}

\* A department that is enabled enables what is above it.
EnabledAbove(path) == {e \in Depts : FindInSet(e, path)}

\* CountNormalChildrenDeptByID.
HasNormalBelow(d) == \E e \in Depts : Live(e) /\ Normal(e) /\ FindInSet(d, ancestors[e])

\* To another parent or the top, and to another status, at once.
UpdateDept(user, d, p, s) ==
    /\ MayUse(user, d)
    /\ p # Top => MayUse(user, p) /\ p # d /\ ~FindInSet(d, ancestors[p])
    /\ s = "disabled" => ~HasNormalBelow(d)
    /\ LET path == IF p = Top THEN <<Top>> ELSE Append(ancestors[p], p) IN
       /\ ancestors' = [e \in Depts |-> IF e = d THEN path ELSE Rebuilt(d, path, e)]
       /\ status' = [e \in Depts |->
                       IF e = d THEN s
                       ELSE IF s = "normal" /\ e \in EnabledAbove(path) THEN "normal" ELSE status[e]]
    /\ parent' = [parent EXCEPT ![d] = p]
    /\ UNCHANGED <<state, operator>>

\* The operator is a user of its department.
HasUser(d) == operator.dept = d

DeleteDept(user, d) ==
    /\ MayUse(user, d)
    /\ ~\E e \in Depts : Live(e) /\ parent[e] = d
    /\ ~HasUser(d)
    /\ state' = [state EXCEPT ![d] = "deleted"]
    /\ UNCHANGED <<parent, ancestors, status, operator>>

TreeInit ==
    /\ state = [d \in Depts |-> IF d = Root THEN "live" ELSE "unborn"]
    /\ parent = [d \in Depts |-> Top]
    /\ ancestors = [d \in Depts |-> <<Top>>]
    /\ status = [d \in Depts |-> "normal"]
    /\ operator \in Operators

\* The operator is there once its department is.
Acting == {user \in {Administrator, operator} : user.dept = Top \/ Live(user.dept)}

TreeNext ==
    \E user \in Acting, d \in Depts :
        \/ \E p \in Depts, s \in Statuses : CreateDept(user, d, p, s)
        \/ \E p \in Depts \cup {Top}, s \in Statuses : UpdateDept(user, d, p, s)
        \/ DeleteDept(user, d)

TreeSpec == TreeInit /\ [][TreeNext]_treeVars

-----------------------------------------------------------------------------
Born(d) == state[d] # "unborn"

TreeTypeOK ==
    /\ state \in [Depts -> {"unborn", "live", "deleted"}]
    /\ parent \in [Depts -> Depts \cup {Top}]
    /\ ancestors \in [Depts -> Seq(Depts \cup {Top})]
    /\ status \in [Depts -> {"normal", "disabled", "other"}]
    /\ operator \in User

\* The two records of the tree agree, in every branch that was ever moved: a
\* path is that of the parent and the parent.  There is no cycle, since paths
\* get longer downwards.
PathsFollowParents ==
    \A d \in Depts : Born(d) =>
        ancestors[d] = IF parent[d] = Top THEN <<Top>> ELSE Append(ancestors[parent[d]], parent[d])

\* What is above a live department is live, and above a normal one normal: no
\* sequence of moves, deletions and changes of status leaves a branch in use
\* under a department that is not, if requests give one of the two statuses
\* (dept.go:208).
BranchesInUse ==
    \A d, e \in Depts : Live(d) /\ FindInSet(e, ancestors[d]) =>
        Live(e) /\ (Statuses \subseteq {"normal", "disabled"} /\ Normal(d) => Normal(e))

\* The departments above d, by parent_id.
Climbed(d) ==
    LET climb[n \in 0..Cardinality(Depts)] ==
            IF n = 0 THEN {d} ELSE climb[n - 1] \cup {parent[e] : e \in climb[n - 1] \ {Top}}
    IN climb[Cardinality(Depts)]

\* What CONVENTIONS.md:564 promises an effective role of a user: by the links
\* of the tree, whatever happened to it, and never more than the union.  A user
\* without a department counts as of id 0, and below it hangs the whole tree.
Promised(user) ==
    {d \in Depts : \E role \in user.roles :
        /\ role.normal /\ role.permitted
        /\ \/ role.scope = "all"
           \/ role.scope = "custom" /\ d \in role.depts
           \/ role.scope = "dept" /\ d = user.dept
           \/ role.scope = "below" /\ user.dept \in Climbed(d)}

PromisedAll(user) == \E role \in Effective(user) : role.scope = "all"

\* An operator sees what its roles promise, neither more nor less, with or
\* without a department (datascope.go:112, datascope.go:177): of the departments,
\* of the users the same departments' ones and, with "self", its own row
\* (service/user.go:26), and of the roles those some such user has (service/role.go:20).
ScopeAsPromised ==
    LET live == {d \in Depts : Live(d)}
        shown == Promised(operator) \cap live
    IN ~operator.admin =>
        /\ Visible(operator) \cap live = shown
        /\ {d \in live \cup {Top} : UserVisible(operator, d, FALSE)} = IF PromisedAll(operator) THEN live \cup {Top} ELSE shown
        /\ UserVisible(operator, operator.dept, TRUE) <=>
               operator.dept \in Promised(operator) \/ \E role \in Effective(operator) : role.scope \in {"all", "self"}
        /\ \A holders \in SUBSET live :
               RoleVisible(operator, holders) <=> holders \cap shown # {} \/ PromisedAll(operator)

===============================================================================
