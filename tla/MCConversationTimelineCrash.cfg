CONSTANTS
    MaxLegacy = 0
    MaxTurns = 2
    MaxRecords = 4
    MaxFaults = 1
SPECIFICATION Spec
INVARIANTS
    ThreadFollowsTurns
