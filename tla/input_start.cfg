SPECIFICATION Spec
CONSTANTS
    Inputs = 1
    ValidPin <- AllPins
    Program = "sprinklerd"
INVARIANTS
    GivesUpOnError
