CONSTANTS
    c1 = c1  c2 = c2  u1 = u1  u2 = u2
    Clients = {c1, c2}
    Urls = {u1, u2}
    Rows = {1, 2, 3}
    UrlOf <- MCUrlOf
    Earlier = {1}
    MaxJobs = 2
    None = None
SPECIFICATION Spec
SYMMETRY MCSymmetry
INVARIANT PrunedMeansEmpty
CHECK_DEADLOCK FALSE
