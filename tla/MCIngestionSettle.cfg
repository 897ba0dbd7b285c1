CONSTANTS
    d1 = d1  d2 = d2  a = a  j1 = j1  j2 = j2  c1 = c1  c2 = c2
    Docs = {d1}
    Docsets = {a}
    DocsetOf <- MCDocsetOf
    ReservedDocsets = {}
    Jobs = {j1, j2}
    Clients = {c1}
    MaxChunks = 1
    MaxTries = 2
    None = None
SPECIFICATION SettleSpec
PROPERTIES EveryJobSettles
