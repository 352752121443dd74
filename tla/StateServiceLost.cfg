\* Two servers, as without daemon mode: a save that was prepared before another
\* server's save takes its tasks away.
CONSTANTS
    c1 = c1
    c2 = c2
    s1 = s1
    s2 = s2
    Caller = {c1, c2}
    Server = {s1, s2}
    None = None
    MaxId = 2
    ServerOf <- TwoServers
SPECIFICATION Spec
PROPERTY SavedTasksStay
