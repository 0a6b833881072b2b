SPECIFICATION FairSpec
CONSTANTS
    VGA_WIDTH = 2
    VGA_HEIGHT = 2
    Contexts = {"kernel", "handler", "panic"}
    BufSize = 5
    Lines = {0, 8}
    Exceptions = {14}
    Texts <- SmallTexts
    Box <- OK
    UnhandledText <- Unhandled
    SerialText <- SerialUp
    PanicText <- Oshi
    FarewellText <- Fish
    TickDot = 2
    FeatureOrder <- KernelOrder
    MaxPrints = 1
    MaxRaised = 2
INVARIANTS
    ScreenShowsText
    RacesHeal
    PanicSent
PROPERTY
    Acknowledged
