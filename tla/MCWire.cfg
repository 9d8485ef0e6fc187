SPECIFICATION MCSpec
CONSTANTS
    Struct <- Structs
    Marshal <- Marshals
    Size <- Sizes
    Unmarshal <- Unmarshals
    External <- Foreign
    Inputs <- MCInputs
    Travelling <- MCTravelling
    Joinable <- MCJoinable
    Alien <- MCAlien
    Writers = {"login", "loop"}
    Frames <- MCFrames
    MaxFrames = 2
INVARIANTS
    SizeIsExact
    ReadBack
    CutIsNoticed
    FramesInOrder
    EndIsJustified
CHECK_DEADLOCK FALSE
