\* Two threads and two mutexes more than threads: two restarts.  Threads need
\* not call again, so the system may stop; NeverStuck says that it never stops
\* with a thread waiting.
CONSTANTS
    Thread = {t1, t2}
    Lock = {l1, l2, l3, l4}
    NoLock = NoLock
    Nobody = Nobody
SPECIFICATION Spec
INVARIANTS
    UnlocksItsOwn
PROPERTIES
    NeverStuck
    ImplementsRWLock
CHECK_DEADLOCK FALSE
