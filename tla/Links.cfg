CONSTANTS
    Char = {a, b}
    MaxLength = 6
    Texts <- ShortTexts
SPECIFICATION Spec
INVARIANTS
    ShownThenRest
    NotPastNextLink
PROPERTY ApartReturns
CHECK_DEADLOCK FALSE
