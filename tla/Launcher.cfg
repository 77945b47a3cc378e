\* The systems that can start without ASLR, where every step may fail.
SPECIFICATION Spec
CONSTANTS
    Systems = {"linux", "apple"}
    Codes = {0, 2}
INVARIANTS ReportTruthful
CHECK_DEADLOCK FALSE
