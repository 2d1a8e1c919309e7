CONSTANTS
    Char = {a, b}
    MaxLength = 3
    Texts <- ShortTexts
SPECIFICATION Spec
PROPERTY Returns
CHECK_DEADLOCK FALSE
