\* Up to two bytes there and back, and any text of up to four characters.
SPECIFICATION Spec
CONSTANTS
    Sources <- MCSources
    Texts <- MCTexts
CHECK_DEADLOCK FALSE
INVARIANTS
    TypeOK
    RoundTrip
    Spells
