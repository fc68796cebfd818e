SPECIFICATION FairSpec
CONSTANTS
    Inputs = 2
    ValidPin <- AllPins
    Program = "gpio_monitor"
INVARIANTS
    TypeOK
    ShownWhenSettled
PROPERTIES
    EveryChangeIsShown
