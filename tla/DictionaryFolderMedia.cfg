SPECIFICATION Spec
INVARIANT MediaOfTheSource
CHECK_DEADLOCK FALSE
