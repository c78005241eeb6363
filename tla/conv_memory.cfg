SPECIFICATION Spec
CONSTANTS
    EndUsers = {e1, e2}
    MaxConvs = 2
    MaxRounds = 2
    MaxEdits = 1
SYMMETRY Symmetry
INVARIANT NoRoundTwice
INVARIANT RememberedUnlessMet
INVARIANT SilosApart
CHECK_DEADLOCK FALSE
