------------------------------ MODULE DataScope ------------------------------
(***************************************************************************)
(* internal/datascope: the departments a user sees.  Each effective role   *)
(* grants a scope, and the query joins them by OR.  What lies below a      *)
(* department is decided by the column ancestors, the path from id 0,      *)
(* which no department has, down to the parent.                            *)
(*                                                                         *)
(* The same conditions are put on the departments, on the users and, by    *)
(* the departments of the users who have it, on a role.                    *)
(***************************************************************************)
EXTENDS Naturals, Sequences

CONSTANTS
    Depts,
    Top     \* id 0: the start of every path, and the department of a user without one

VARIABLE ancestors   \* department -> its path

Role == [normal: BOOLEAN, permitted: BOOLEAN,
         scope: {"all", "custom", "dept", "below", "self"}, depts: SUBSET Depts]
User == [admin: BOOLEAN, dept: Depts \cup {Top}, roles: SUBSET Role]

\* find_in_set, and containsID.
FindInSet(id, path) == \E i \in DOMAIN path : path[i] = id

Effective(user) == {role \in user.roles : role.normal /\ role.permitted}

\* Mutant: the department and its children only.
BelowDirectly(user) ==
    {d \in Depts : d = user.dept \/ (ancestors[d] # <<>> /\ ancestors[d][Len(ancestors[d])] = user.dept)}

Below(user) == {d \in Depts : d = user.dept \/ FindInSet(user.dept, ancestors[d])}

Clause(user, role) ==
    CASE role.scope = "all" -> Depts
      [] role.scope = "custom" -> role.depts
      [] role.scope = "dept" -> {user.dept} \cap Depts
      [] role.scope = "below" -> Below(user)
      [] role.scope = "self" -> {}

\* The administrator is not restricted; without an effective role nothing is seen.
Visible(user) == IF user.admin THEN Depts ELSE UNION {Clause(user, role) : role \in Effective(user)}

\* Rows of users, by their column dept_id, and with the user's own row for
\* "self".  It is NULL for a user without a department, which no condition meets.
UserVisible(user, dept, own) ==
    \/ user.admin
    \/ \E role \in Effective(user) : role.scope = "all" \/ (role.scope = "self" /\ own) \/ dept \in Clause(user, role)

\* Rows of roles, joined with the departments of their users: DISTINCT leaves
\* one of a role if any of them passes.  A role nobody has is joined with none.
RoleVisible(user, holders) == UserVisible(user, Top, FALSE) \/ \E dept \in holders : UserVisible(user, dept, FALSE)

===============================================================================
