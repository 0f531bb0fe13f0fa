\* A manual run that is still on the Task, or in the cache, after it was fired.
SPECIFICATION Spec
CONSTANTS
    MaxEdits = 1
    None = None
    MaxTime = 1
    Period = 2
    MaxCrashes = 0
PROPERTY ManualRunFiresOnce
CHECK_DEADLOCK FALSE
