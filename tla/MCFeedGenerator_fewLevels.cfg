\* One level a side, which the configuration check lets through.
SPECIFICATION Spec
CONSTANTS
    Configs <- OneLevel
    MaxGap = 1
    MaxU32 = 9
INVARIANTS DrawsDefined
CHECK_DEADLOCK FALSE
