\* One server with two callers: the service and the store implement the serial
\* document, and the notifier has every change checked.
CONSTANTS
    c1 = c1
    c2 = c2
    s1 = s1
    s2 = s2
    Caller = {c1, c2}
    Server = {s1}
    None = None
    MaxId = 2
    ServerOf <- OneServer
SPECIFICATION FairSpec
INVARIANTS TypeOK SaveIsAwaited
PROPERTIES ImplementsSerial ChangeIsChecked
