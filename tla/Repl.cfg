SPECIFICATION Spec
CONSTANTS
    MaxInput = 3
    MaxPacket = 3
INVARIANTS  StripsExactly
PROPERTIES AnswersInOrder 
CHECK_DEADLOCK FALSE
