CONSTANTS
    Size = 4
    ReadSizes <- OneOrTwo
    MaxChars = 7
SPECIFICATION Spec
INVARIANT DiscardsOne
