CONSTANTS
    XLEN = 14
    WLEN = 8
    MANT_S = 2
    EXP_S = 5
    MANT_D = 7
    EXP_D = 6
    Instructions <- MCInstructions
    Operands <- MCOperands
SPECIFICATION Spec
PROPERTIES
    ArithmeticRounds
    ConversionsRound
    ComparesOrder
    IntegersExact
CHECK_DEADLOCK FALSE
