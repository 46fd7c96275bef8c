\* NUL, LF, CR, blank, '%', '/', ':', 'F', and bytes that are negative as a char;
\* two groups of three, the second with one byte or two.
CONSTANTS
    Byte = {0, 10, 13, 32, 37, 47, 58, 70, 251, 255}
    MaxLen = 5
SPECIFICATION TextSpec
INVARIANTS
    Base64IsBits
    SignedAsSent
    HeadersComeBack
CHECK_DEADLOCK FALSE
