SPECIFICATION Spec
CONSTANT VM <- Machines
INVARIANTS
    MirrorInSync
    ActiveIsHeld
    TakenIsTracked
    BacklogIsServed
