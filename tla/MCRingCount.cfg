CONSTANTS
    a = a
    b = b
    e = e
    blank = blank
    Chars = {a, b}
    ErrorChar = e
    Blank = blank
    FirstSize = 2
    MaxSize = 3
    MaxLen = 3
SPECIFICATION Spec
INVARIANTS CountExact
