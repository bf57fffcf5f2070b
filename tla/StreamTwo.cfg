CONSTANTS
    a = a
    b = b
    Nul = Nul
    Writers = {w1, w2}
    Readers = {r1}
    Resetters = {}
    Bytes = {a, b}
    Messages <- Short
    Lengths = {1, 2}
    Size = 2
    Triggers = {1}
SPECIFICATION Spec
INVARIANT WritersAwake
