SPECIFICATION Spec
CONSTANTS
    zero = zero
    h1 = h1
    Dialogues <- MCDialogues
    ClientPorts <- MCClientPorts
    Address <- MCAddress
    Layouts = {"packed"}
    NoID = zero
    maxInflight = 1
    Consumers = 2
    MaxWrites = 3
CHECK_DEADLOCK FALSE
INVARIANT RepliesRead
