SPECIFICATION QueueFairSpec
CONSTANTS
    Users = {u1, u2}
    Limit = 1
    BatchSize = 1
    MaxMarks = 3
PROPERTIES QueueProgress
