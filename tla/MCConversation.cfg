SPECIFICATION Spec
CONSTANTS
    zero = zero
    h1 = h1
    Dialogues <- MCDialogues
    ClientPorts <- MCClientPorts
    Address <- MCAddress
    Layouts = {"aligned", "packed"}
    NoID = zero
    maxInflight = 1
    Consumers = 2
    MaxWrites = 3
CHECK_DEADLOCK FALSE
INVARIANTS
    RepliesUnread
    OnlyRequestsWait
    TracerSurvives
    ClosedFlowsGone
