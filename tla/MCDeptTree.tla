------------------------------ MODULE MCDeptTree ------------------------------
EXTENDS DeptTree, TLC

\* What an operator's roles may be: none, one of each kind, one that has no
\* effect, or two that add up.
RoleSets ==
    LET below == [normal |-> TRUE, permitted |-> TRUE, scope |-> "below", depts |-> {}]
        custom == [below EXCEPT !.scope = "custom", !.depts = {Root}]
    IN {{}, {custom}, {below, custom}}
            \cup {{[below EXCEPT !.scope = scope]} : scope \in {"all", "dept", "below", "self"}}
            \cup {{[below EXCEPT !.normal = FALSE]}, {[below EXCEPT !.permitted = FALSE]}}

\* Departments other than the root are alike; a user may have none.
Employed == [admin: {FALSE}, dept: {Root, CHOOSE d \in Depts \ {Root} : TRUE}, roles: RoleSets]
            \cup {[admin |-> FALSE, dept |-> Top, roles |-> {role}] : role \in UNION RoleSets}

===============================================================================
