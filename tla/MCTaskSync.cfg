SPECIFICATION FairSpec
CONSTANTS
    t1 = t1
    r1 = r1
    None = None
    Tasks = {t1}
    Reminders = {r1}
    MaxEvents = 3
    MaxFaults = 1
CHECK_DEADLOCK FALSE
INVARIANTS
    TypeOK
    TasksCursorSound
PROPERTY
    TasksMirrored
