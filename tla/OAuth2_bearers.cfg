CONSTANTS
    u1 = u1
    u2 = u2
    x4 = x4
    y4 = y4
    x6 = x6
    x0 = x0
    Nobody = Nobody
    None = None
    Keep = Keep
    Agents = {a1}
    Threads = {t1}
    Users = {u1}
    Accounts = {u1}
    Addresses = {x4, x6, x0}
    Family <- MCFamily
    ResponseTypes = {"code", "token", "other"}
    Lifetime = 0
    MaxTime = 1
    MaxKey = 0
SPECIFICATION FairSpec
INVARIANT BearersHonoured
PROPERTY CallsAnswered
