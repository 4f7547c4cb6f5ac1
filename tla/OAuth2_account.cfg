CONSTANTS
    u1 = u1
    u2 = u2
    x4 = x4
    y4 = y4
    x6 = x6
    x0 = x0
    Nobody = Nobody
    None = None
    Keep = Keep
    Agents = {a1}
    Threads = {t1}
    Users = {u1, u2}
    Accounts = {u1}
    Addresses = {x4}
    Family <- MCFamily
    ResponseTypes = {"code"}
    Lifetime = 1
    MaxTime = 2
    MaxKey = 0
SPECIFICATION Spec
INVARIANT CodeNamesItsUser
