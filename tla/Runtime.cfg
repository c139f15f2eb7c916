SPECIFICATION Spec
CONSTANTS
    h1 = h1  h2 = h2
    n1 = n1  n2 = n2  r1 = r1  p1 = p1  p2 = p2
    Empty = Empty
    Torn = Torn
    Main = Main
    NoThread = NoThread
    Handlers <- MCHandlers
    Nets <- MCNets
    Raws <- OneRaw
    Pols <- MCPols
    Inputs <- MCInputs
    InitialConfig <- MCInitial
    MaxCalls = 2
    MaxCrashes = 1
INVARIANTS
    TypeOK
    FieldsNameTheInstance
    OverlapOnlyAfterTimeout
    SerialCallsTakeEffect
PROPERTIES
    NoNeedlessRestart
    ImplementsSlot
    CallsReturn
CHECK_DEADLOCK FALSE
