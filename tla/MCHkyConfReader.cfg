CONSTANTS
    Inputs <- MCInputs
    Main <- MCMain
    Buffer = 4
    Commands <- MCCommands
    Garbage = {2, 100}
    TopContext = "top"
SPECIFICATION Spec
INVARIANTS TokenRight
PROPERTIES AcceptsNested Terminates
CHECK_DEADLOCK FALSE
