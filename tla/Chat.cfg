SPECIFICATION Spec
CONSTANTS
    Request = {r1, r2, r3}
    Capacity = 6
    PageCost = 1
    ChatCost = 3
    LoopLife = 3
INVARIANTS
    TypeOK
    OneAnswerEach
    AnswerOwed
    PageSettles
    LoopsPaid
PROPERTY
    EveryMessageSettles
