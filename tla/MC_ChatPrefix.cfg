\* The longest request that fits the buffer, and its delivery.
SPECIFICATION Spec
CONSTANTS
    MaxLen = 9
    Overhead <- SmallOverhead
    TextSizes = {5}
    Commands = {"join", "quit"}
    RestTags = {"none"}
    MaxInputs = 3
INVARIANTS
    DeliveriesFit
