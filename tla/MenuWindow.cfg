SPECIFICATION Spec
CONSTANTS
    Users = {u1}
    Roles = {ro1}
    Menus = {m1}
    Posts = {}
    Depts = {}
    Writers = {w1, w2}
    None = None
    Beginnings = {{u1, ro1, m1}}
    MaxWrites = 2
SYMMETRY WriteSymmetry
INVARIANT SessionsMatchTables
CHECK_DEADLOCK FALSE
