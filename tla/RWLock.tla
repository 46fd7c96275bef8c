------------------------------- MODULE RWLock -------------------------------
(***************************************************************************)
(* What a readers-writer lock promises: any number of readers, or one      *)
(* writer and no reader.                                                   *)
(***************************************************************************)
CONSTANTS Thread, Nobody

VARIABLES
    readers,  \* threads that hold the lock for reading
    writer    \* the thread that holds it for writing, or Nobody

lockVars == <<readers, writer>>

Init == readers = {} /\ writer = Nobody

StartRead(t) ==
    /\ writer = Nobody
    /\ t \notin readers
    /\ readers' = readers \cup {t}
    /\ UNCHANGED writer

EndRead(t) ==
    /\ t \in readers
    /\ readers' = readers \ {t}
    /\ UNCHANGED writer

StartWrite(t) ==
    /\ readers = {}
    /\ writer = Nobody
    /\ writer' = t
    /\ UNCHANGED readers

EndWrite(t) ==
    /\ writer = t
    /\ writer' = Nobody
    /\ UNCHANGED readers

Next == \E t \in Thread :
            StartRead(t) \/ EndRead(t) \/ StartWrite(t) \/ EndWrite(t)

Spec == Init /\ [][Next]_lockVars

===============================================================================
