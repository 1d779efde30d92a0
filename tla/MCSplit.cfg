\* All dimensions up to one that is too large for the largest number of slots.
SPECIFICATION Spec
CONSTANTS
    SlotCounts = {1, 2, 4, 8, 16, 32}
    Dimensions <- MCDimensions
INVARIANTS TypeOK AnswerExact
CHECK_DEADLOCK FALSE
