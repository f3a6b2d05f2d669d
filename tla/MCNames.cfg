SPECIFICATION Spelling
CONSTANTS
    Chars = {"A", "n", "E", "-", " ", "1", "."}
    MaxLen = 5
    LowerOf <- MCLowerOf
    DigitValue <- MCDigitValue
INVARIANTS
    ANEStartsAWord
    SanitizedForm
    ParsesNumbers
