SPECIFICATION Spec
CONSTANTS
    Request = {r1, r2}
    Email = {e1, e2}
    Word = {w1}
    Name = {n1}
    MaxId = 3
INVARIANT ChosenPasswordWorks
