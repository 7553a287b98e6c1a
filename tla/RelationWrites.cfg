SPECIFICATION Spec
CONSTANTS
    Users = {u1, u2}
    Roles = {ro1}
    Menus = {m1, m2}
    Posts = {p1}
    Depts = {d1}
    Writers = {w1, w2}
    None = None
    Beginnings = {{u1, ro1, m1, m2, p1, d1}, {u1, m1}}
    MaxWrites = 2
SYMMETRY WriteSymmetry
INVARIANTS TypeOK TablesSound StaleOnlyUnlisted PagesAgree SomebodyMoves
CHECK_DEADLOCK FALSE
