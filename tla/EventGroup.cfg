CONSTANTS
    Callers = {t1, t2, t3}
    Bits = {a, b}
    Masks <- AllMasks
SPECIFICATION GroupSpec
SYMMETRY Interchangeable
INVARIANTS SleepersUnsatisfied TakenOnce
PROPERTY ReturnsOnCondition
