SPECIFICATION Spec
CONSTANTS
    Turns = {t1}
    Keep = 5
INVARIANT MessagesAreOfTurn
CHECK_DEADLOCK FALSE
