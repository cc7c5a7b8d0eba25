\* Files 1 and 5 share slot 1 at a spread of 2 and part at 3; easySFTP chose the count.
CONSTANTS
    Files = {1, 5}
    Ops = {}
    Recovery = recovery
    None = none
    Pool = 3
    Ceiling = 3
    StartSpread = 2
    Retries = 2
    Unpinned = TRUE
    SkipUnchanged = FALSE
SPECIFICATION Spec
INVARIANTS TypeOK OneHandshake RedialOwnsClient RedialsArePaidFor OneDialPerSlot DialWaitersAreServed
PROPERTY NoRedialAfterKill
