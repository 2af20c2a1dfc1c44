\* The watcher and other clients over one file, two handlers of which one may raise.
CONSTANTS
    Paths = {a}
    OtherKeys = {None}
    Handlers = {log, context}
    Faulty = {context}
    Workers = {w}
    Slots = {s1, s2}
    None = None
    Limit = 1
    Window = 1
    Quiet = 1
    MaxAttempts = 2
    MaxKills = 1
    MaxEvents = 3
    MaxTime = 1

SPECIFICATION Spec
VIEW Seen
INVARIANTS
    AllowanceIsBounded
    PendingHasWork
PROPERTIES
    TakesHandout
