SPECIFICATION Spec
CONSTANT
    Checked = {"HostIn"}
INVARIANT
    EachValueHasItsNumber
CHECK_DEADLOCK FALSE
