\* One restore, over the current database or into another one.
CONSTANTS
    Jobs = {j1}
    Targets = {copy}
    Current = current
SPECIFICATION Spec
CHECK_DEADLOCK FALSE
PROPERTIES
    CancelledOnlyWhenAsked
