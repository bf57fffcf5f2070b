CONSTANTS
    a = a
    b = b
    Nul = Nul
    Writers = {w1}
    Readers = {r1, r2}
    Resetters = {x}
    Bytes = {a, b}
    Messages <- Long
    Lengths = {1, 4}
    Size = 3
    Triggers = {0, 2, 4}
SYMMETRY Interchangeable
SPECIFICATION Spec
INVARIANTS ReadersAwake WritersAwake NoStandoff
PROPERTY RefinesStream
