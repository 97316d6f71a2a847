SPECIFICATION FairSpec
CONSTANTS
    a1 = a1
    b = b
    NoAlert = NoAlert
    Alert = {a1, b}
    Sender = {"s1", "s2"}
    KeyOf <- MCKeyOf
    NumChannels = 2
    Allows <- MCAllows
    Window = 1
    QueueCap = 1
    RetryMax = 1
    Engines = 2
INVARIANTS
    TypeOK
    OneWinnerPerWindow
PROPERTIES
    DeliversAccepted
    OldEnginesDrain
