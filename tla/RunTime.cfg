SPECIFICATION Spec
CONSTANTS
    Requests <- MCRequests
    IntLast = 7
    LongLast = 127
    Readings <- MCReadings
    Names <- MCNames
    Imaged <- MCImaged
    ValueMax = 127
    Buffers = 3
    BufferSize = 8
    MaxImages = 4
    Loops <- MCLoops
    SlotLow <- MinusFour
    SlotHigh = 3
    MaxVisits = 10
    Subprograms = {"main", "outer", "middle", "inner", "beside", "lib"}
    None = "none"
    Owner <- MCOwner
    Level <- MCLevel
    Enclosing <- MCEnclosing
    MaxDepth = 7
    Formals <- MCFormals
    Calls <- MCCalls
    Cells = {"i", "a1", "a2"}
    Index = "i"
    Indexed = "component"
    Component <- MCComponent
    CellLow <- MinusOne
    CellHigh = 1
    Garbage = {1, 5}
    MaxWrites = 2
    Items <- MCItems
    Numbers <- MCNumbers
    Literals <- MCLiterals
    Room = {0, 2}
    First <- MinusFive
    Final = 12
    Spacings = {1, 2}
    MaxContent = 5
    ElementValues <- MCElementValues
    ElementSize = 2
    MaxIndex = 4
    MaxBytes = 6
    Objects <- MCObjects
    StreamBuffers = 2
    StreamRoom = 3
    MaxObjects = 4
INVARIANTS
    ArithmeticExact
    ValueExact
    ImagesIntact
    LoopVisitsRange
    LinkIsMostRecent
    CopiedBackInOrder
    TextNothingLost
    StreamRoundTrip
PROPERTY ImplementsDirectIO
