\* A task with two retries, a worker that connects again, a broker crash.
CONSTANTS
    w = w
    Task = {t}
    Worker = {w}
    Nil = Nil
    MaxRetries = 2
    MaxConn <- Twice
    MaxCrash = 1
SPECIFICATION Spec
CHECK_DEADLOCK FALSE
INVARIANT TypeOK
INVARIANT OneOwner
INVARIANT TaskIsKept
INVARIANT AttemptsBounded
