\* Three threads, one line fills a file, two seconds, one failure of
\* freopen, two of rename with the file in place.
CONSTANTS
    Thread = {t1, t2, t3}
    Limit = 1
    Found = {0, 2}
    Lines = 3
    MaxTime = 1
    Faults = 1
    Refusals = 2
    NoFile = NoFile
SYMMETRY Symmetric
SPECIFICATION Spec
INVARIANTS
    WritesToNamedFile
    SizesBounded
    OneLogFile
