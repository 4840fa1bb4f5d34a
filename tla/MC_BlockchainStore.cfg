CONSTANTS
    w3 = w3
    w5 = w5
    r1 = r1
    r2 = r2
    Writers = {w3, w5}
    Readers = {r1, r2}
    Bump <- MCBump
    InitialVersion = 2
    NoValue = NoValue
    None = None

SPECIFICATION Spec

INVARIANT TypeOK
INVARIANT BumpsNotLost
PROPERTY ProgramTerminates

\* The test program ends once main has read the final version.
CHECK_DEADLOCK FALSE
