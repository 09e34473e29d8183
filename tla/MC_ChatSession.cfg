\* Lines that fit the buffer, that are read in two pieces, and in three.
SPECIFICATION FairSpec
CONSTANTS
    MaxLen = 9
    Overhead <- SmallOverhead
    TextSizes = {3, 8, 14}
    Commands = {"join", "leave", "quit"}
    RestTags = {"none", "quit", "ok"}
    MaxInputs = 3
INVARIANTS
    AnswersInStep
    ShownAsSent
PROPERTIES
    SenderNeverHangs
    BroadcastIsShown
