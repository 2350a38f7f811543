SPECIFICATION Spec
CONSTANTS
    Message <- Messages
    Desc <- MessageDesc
    FreedAs <- MessageFreedAs
    Struct <- MessageStruct
    Name <- IE
    Handlers <- Handler
    VariableLen <- VariableLength
    Multi <- MultiOf
    Checked <- Checking
    Foreign <- Misplaced
    Source <- Structures
CHECK_DEADLOCK FALSE
INVARIANT TypeOK
INVARIANT FieldTypesMatch
INVARIANT DeliveredAsSent
INVARIANT MandatoryDelivered
INVARIANT OnlyListsLeak
