SPECIFICATION QueueSpec
CONSTANTS
    Users = {u1, u2}
    Limit = 2
    BatchSize = 1
    MaxMarks = 3
INVARIANTS QueueBounded
SYMMETRY UserSymmetry
