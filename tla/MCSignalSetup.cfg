\* Three tasks and three calls of all the signals.  No symmetry: a temporal
\* property needs every behaviour.
SPECIFICATION Spec
CONSTANTS
    t1 = t1
    t2 = t2
    t3 = t3
    Tasks = {t1, t2, t3}
    Calls <- MCCalls
    MaxCalls = 3
INVARIANTS
    NoThreadIsOrphaned
    OnlyExportThreadsAreLarge
PROPERTIES
    FirstInstallationStays
    TracingIsSetUp
CHECK_DEADLOCK FALSE
