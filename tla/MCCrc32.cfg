\* crc32 returns after its last step: the final state has no successor.
CONSTANTS
    Inputs <- MCInputs
    Crcs <- MCCrcs
SPECIFICATION Spec
CHECK_DEADLOCK FALSE
INVARIANTS TypeOK RegisterInvariant Crc32Correct
