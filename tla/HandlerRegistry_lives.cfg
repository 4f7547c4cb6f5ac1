CONSTANTS
    None = None
    Root = Root
    Builtin = Builtin
    oauth2 = oauth2
    x = x
    y = y
    Uris <- MCUris
    Builtins <- MCBuiltins
    Servers = {s1, s2}
    Handlers = {h1, h2, h3}
    Threads = {t1, t2}
SPECIFICATION Spec
INVARIANTS TypeOK NoDanglingHandler OnlyOrphansTerminate
PROPERTY HandlersKeepTheirKey
SYMMETRY Symmetry
CHECK_DEADLOCK FALSE
